---- MODULE Spec2Model ----
(***************************************************************************)
(* Verification model of the shared-immutable library (natanelia/zerocopy). *)
(* Each structure family (SharedMap, sorted tree, ordered map, priority     *)
(* queue, linked lists, worker attach) is a group of variables with its own *)
(* specification; the other groups stay unchanged in that specification.    *)
(* Pointers are abstracted to small cell numbers, 0 is the null pointer.    *)
(***************************************************************************)
EXTENDS Integers, Sequences, FiniteSets, TLC

\* ------------------------------------------------------------------------
\* Bounds of the exploration
\* ------------------------------------------------------------------------
MaxMaps == 3
MaxKey == 2
MaxVal == 1
RootSlots == 2
HamtCap == 2
MaxOps == 2
MaxGen == 1
MaxListNodes == 3
MaxListHandles == 2
MaxListVal == 2
MaxPqHeaps == 1
MaxPqBlobs == 3
MaxPqHandles == 2
MaxPriority == 2
MaxOmEntries == 3
MaxOmBytes == 96
MaxRbBytes == 54
MaxRbCalls == 4
MaxRbGen == 1
MaxInits == 2
MaxWkHandles == 3
MaxSlHandles == 2
MaxSlVal == 2
MaxSlSize == 2
MaxSlRoots == 2
MaxSlGen == 1
MaxRbHandles == 2
MaxOmHandles == 2
MaxLhNodes == 5
MaxLhRoots == 2
MaxLhPriority == 1
MaxLhVal == 1
MaxGrowCap == 2
MaxGrowSize == 3

\* ------------------------------------------------------------------------
\* Program constants
\* ------------------------------------------------------------------------
\* 0xFFFFFFFF read as a signed 32-bit word; "slot < 0xFFFFFFFF" on a u32 is
\* "slot # NoSlot"
NoSlot == -1
NotFound == -1
Undefined == -2
GcOpsThresholdDefault == 1000
GcMemoryThresholdDefault == 1048576
HamtNodeBytes == 8
SetMember == 0
EnvBase == 16
EnvStride == 4
PqHeapStart == 65536
PqEntrySize == 16
PqHeapHeader == 8
PqInitialCapacity == 16
LenShift == 1048576
LenModulus == 4096
OmHeapStart == 65600
FnvOffsetHi == 33052
FnvOffsetLo == 40389
FnvPrimeHi == 256
FnvPrimeLo == 403
HamtBits == 5
ListNodeHeader == 16
RbHeapStart == 65600
NodeSize == 24
LhHeapStart == 65536
LhNodeSize == 24
RED == 0
BLACK == 1

HasSlot(slot) == slot # NoSlot

VARIABLES
  \* ---- SharedMap family (shared-map.ts) ----
  generation,        \* let generation
  autoGCEnabled,     \* let autoGCEnabled
  gcMemoryThreshold, \* let gcMemoryThreshold
  gcOpsThreshold,    \* let gcOpsThreshold
  opsSinceGC,        \* let opsSinceGC
  pendingDispose,    \* const pendingDispose: SharedMap[]
  freeSlots,         \* const freeSlots: number[]
  registry,          \* FinalizationRegistry cells
  maps,              \* the SharedMap objects that exist (not yet collected)
  wasm,              \* the HAMT wasm instance: arena, allocator, root table
  nested,            \* log of nested SharedSet values stored in a SharedMap
  \* ---- worker hand-over (shared.ts) ----
  workerData,        \* what getWorkerData() serialized, <<>> when nothing
  restored,          \* what initWorker() returned, <<>> when nothing
  \* ---- SharedDoublyLinkedList (doubly-linked-list wasm and wrapper) ----
  dllMem,            \* arena: cell -> [prev, next, value]
  dllHeapEnd,        \* let heapEnd (as a cell number)
  dllFreeList,       \* let freeList
  dllLists,          \* the SharedDoublyLinkedList objects: id -> [head, tail, size]
  \* ---- SharedLinkedList (singly-linked-list.as.ts and wrapper) ----
  sllMem,            \* arena: cell -> [next, value]
  sllHeapEnd,        \* let heapEnd (as a cell number)
  sllFreeList,       \* let freeList
  sllLists,          \* the SharedLinkedList objects: id -> [head, tail, size]
  \* ---- SharedPriorityQueue (binary heap wasm and wrapper) ----
  pqHeaps,           \* arena: heap address -> [cap, entries]
  pqBlobs,           \* arena: address -> byte of a value blob
  pqHeapEnd,         \* let heapEnd
  pqQueues,          \* the SharedPriorityQueue objects
  \* ---- SharedOrderedMap (ordered-map wasm and wrapper) ----
  omMem,             \* arena: address -> list node, HAMT node or HAMT leaf
  omHeapEnd,         \* let heapEnd
  omMaps,            \* the SharedOrderedMap objects: id -> [root, head, tail, size]
  \* ---- SharedSortedMap (red-black tree wasm and wrapper) ----
  rbMem,             \* the bytes of the arena from HEAP_START on
  rbHeapEnd,         \* let heapEnd
  rbFreeList,        \* let freeList
  rbMaps,            \* the SharedSortedMap objects: id -> [root, size]
  rbCalls,           \* the number of set and delete calls made so far
  rbGeneration,      \* let generation (shared-sorted-map.ts)
  \* ---- a worker thread: its doubly-linked-list module and initWorker ----
  isBun,             \* const isBun
  snapshot,          \* the WorkerData message in flight, <<>> when none
  workerInitialized, \* let workerInitialized (in the worker)
  wkAttached,        \* the worker's wasmMemory is the publisher's memory object
  wkMem,             \* the worker's own memory, made when its module loaded
  wkHeapEnd,         \* heapEnd of the worker's wasm instance
  wkFreeList,        \* freeList of the worker's wasm instance
  wkLists,           \* the SharedDoublyLinkedList objects of the worker
  wkInits,           \* the number of initWorker calls made so far
  \* ---- SharedList (shared-list.ts) ----
  slGeneration,      \* let generation
  slVecs,            \* arena: root -> the elements of the vector under it
  slRefs,            \* root -> reference count of the vector under it
  slHeapEnd,         \* heapEnd of the vector wasm (as a root number)
  slLists,           \* the SharedList objects
  \* ---- persistent leftist heap (unnamed/part_001) ----
  lhMem,             \* arena: address -> the node allocated there
  lhHeapEnd,         \* let heapEnd
  lhFreeList,        \* let freeList
  lhRoots,           \* the roots the host holds, oldest first: [root, isMaxHeap, live]
  last               \* the most recent call (history)

mapVars == <<generation, autoGCEnabled, gcMemoryThreshold, gcOpsThreshold,
             opsSinceGC, pendingDispose, freeSlots, registry, maps,
             wasm, nested>>

workerVars == <<workerData, restored>>

dllVars == <<dllMem, dllHeapEnd, dllFreeList, dllLists>>

sllVars == <<sllMem, sllHeapEnd, sllFreeList, sllLists>>

pqVars == <<pqHeaps, pqBlobs, pqHeapEnd, pqQueues>>

omVars == <<omMem, omHeapEnd, omMaps>>

rbVars == <<rbMem, rbHeapEnd, rbFreeList, rbMaps, rbCalls, rbGeneration>>

attVars == <<isBun, snapshot, workerInitialized, wkAttached, wkMem, wkHeapEnd,
             wkFreeList, wkLists, wkInits>>

slVars == <<slGeneration, slVecs, slRefs, slHeapEnd, slLists>>

lhVars == <<lhMem, lhHeapEnd, lhFreeList, lhRoots>>

moreVars == <<attVars, slVars, lhVars>>

\* everything outside the SharedMap module
notMap == <<workerVars, dllVars, sllVars, pqVars, omVars, rbVars, moreVars, last>>

Keys == 1..MaxKey
Vals == 1..MaxVal
MapIds == 1..MaxMaps
Slots == 0..(RootSlots - 1)
ListCells == 1..MaxListNodes
ListIds == 1..MaxListHandles
ListVals == 1..MaxListVal

NoToken == 0
TypeNumber == "number"
TypeNestedSet == "SharedSet<string>"

\* ------------------------------------------------------------------------
\* Contents of a HAMT version: a finite map from keys to values
\* ------------------------------------------------------------------------
EmptyContent == [k \in {} |-> 0]
Put(c, k, v) == [x \in (DOMAIN c) \cup {k} |-> IF x = k THEN v ELSE c[x]]
Remove(c, k) == [x \in (DOMAIN c) \ {k} |-> c[x]]

\* ------------------------------------------------------------------------
\* HAMT wasm instance (shared-map.wasm).  Its source is not part of the
\* repository files at hand; it is modelled from the specification (4.1,
\* 4.3): path copy on every write, root-slot release returns the top-level
\* node of the released version to the free-list, alloc pops the free-list.
\* Only the top-level node of each version is represented.
\* ------------------------------------------------------------------------
WasmInit == [nodes    |-> [p \in 1..(HamtCap + 1) |-> EmptyContent],
             heapEnd  |-> 1,
             freeList |-> <<>>,
             roots    |-> [s \in Slots |-> [used |-> FALSE, ptr |-> 0]]]

\* the part of the arena that is explored
ArenaOk(w) == w.heapEnd <= HamtCap + 1

HamtAlloc(w) ==
  IF w.freeList # <<>>
  THEN [ptr |-> Head(w.freeList), w |-> [w EXCEPT !.freeList = Tail(@)]]
  ELSE [ptr |-> w.heapEnd, w |-> [w EXCEPT !.heapEnd = @ + 1]]

HamtDecref(w, ptr) ==
  IF ptr = 0 THEN w ELSE [w EXCEPT !.freeList = <<ptr>> \o @]

HamtContent(w, root) == IF root = 0 THEN EmptyContent ELSE w.nodes[root]

insertKey(w, root, k, v) ==
  LET old == HamtContent(w, root)
      a   == HamtAlloc(w)
  IN [w       |-> [a.w EXCEPT !.nodes[a.ptr] = Put(old, k, v)],
      newRoot |-> a.ptr,
      existed |-> k \in DOMAIN old]

tryRemove(w, root, k) ==
  LET old == HamtContent(w, root) IN
  IF k \notin DOMAIN old THEN [w |-> w, newRoot |-> NotFound]
  ELSE IF DOMAIN old = {k} THEN [w |-> w, newRoot |-> 0]
  ELSE LET a == HamtAlloc(w)
       IN [w |-> [a.w EXCEPT !.nodes[a.ptr] = Remove(old, k)], newRoot |-> a.ptr]

registerRoot(w, ptr) ==
  LET avail == {s \in Slots : ~w.roots[s].used} IN
  IF avail = {} THEN [w |-> w, slot |-> NoSlot]
  ELSE LET s == CHOOSE x \in avail : \A y \in avail : x <= y
       IN [w |-> [w EXCEPT !.roots[s] = [used |-> TRUE, ptr |-> ptr]], slot |-> s]

updateRoot(w, slot, ptr) ==
  LET w1 == HamtDecref(w, w.roots[slot].ptr)
  IN [w1 EXCEPT !.roots[slot].ptr = ptr]

unregisterRoot(w, slot) ==
  LET w1 == HamtDecref(w, w.roots[slot].ptr)
  IN [w1 EXCEPT !.roots[slot] = [used |-> FALSE, ptr |-> 0]]

wasmReset(w) ==
  [w EXCEPT !.heapEnd = 1, !.freeList = <<>>,
            !.roots = [s \in Slots |-> [used |-> FALSE, ptr |-> 0]]]

getUsedBytes(w) == (w.heapEnd - 1) * HamtNodeBytes

\* ------------------------------------------------------------------------
\* The JavaScript side of the SharedMap module, as one record that the
\* handlers below thread through their steps.
\* ------------------------------------------------------------------------
MapSt == [generation |-> generation, opsSinceGC |-> opsSinceGC,
          pendingDispose |-> pendingDispose, freeSlots |-> freeSlots,
          registry |-> registry, maps |-> maps, wasm |-> wasm]

FreshId(s) == CHOOSE i \in MapIds \ DOMAIN s.maps :
                 \A j \in MapIds \ DOMAIN s.maps : i <= j

WithMap(ms, id, rec) == [x \in (DOMAIN ms) \cup {id} |-> IF x = id THEN rec ELSE ms[x]]
WithoutMap(ms, id) == [x \in (DOMAIN ms) \ {id} |-> ms[x]]

\* FinalizationRegistry.register(target, heldValue): no unregister token
RegistryRegister(reg, target, slot, gen) ==
  reg \cup {[target |-> target, slot |-> slot, gen |-> gen, token |-> NoToken]}

\* FinalizationRegistry.unregister(token): drops the cells registered with token
RegistryUnregister(reg, token) == {c \in reg : c.token # token}

\* constructor(type, root, size)
Construct(s, type, root, size) ==
  LET id == FreshId(s)
      viaFree == s.freeSlots # <<>>
      reused  == s.freeSlots[Len(s.freeSlots)]
      reg     == registerRoot(s.wasm, root)
      slot == IF root = 0 THEN NoSlot ELSE IF viaFree THEN reused ELSE reg.slot
      w1   == IF root = 0 THEN s.wasm
              ELSE IF viaFree THEN updateRoot(s.wasm, reused, root) ELSE reg.w
      fs1  == IF root # 0 /\ viaFree THEN SubSeq(s.freeSlots, 1, Len(s.freeSlots) - 1)
              ELSE s.freeSlots
      rg1  == IF HasSlot(slot) THEN RegistryRegister(s.registry, id, slot, s.generation)
              ELSE s.registry
      obj  == [type |-> type, root |-> root, size |-> size, slot |-> slot,
               gen0 |-> s.generation, slot0 |-> slot,
               view0 |-> HamtContent(w1, root), userDisposed |-> FALSE]
  IN [s  |-> [s EXCEPT !.wasm = w1, !.freeSlots = fs1, !.registry = rg1,
                       !.maps = WithMap(s.maps, id, obj)],
      id |-> id]

\* dispose()
Dispose(s, h) ==
  IF HasSlot(s.maps[h].slot)
  THEN [s EXCEPT !.wasm = updateRoot(s.wasm, s.maps[h].slot, 0),
                 !.freeSlots = Append(s.freeSlots, s.maps[h].slot),
                 !.registry = RegistryUnregister(s.registry, h),
                 !.maps[h].slot = NoSlot]
  ELSE s

\* the loop of maybeGC: i runs from the end of pendingDispose down to the
\* start and disposes pendingDispose[i] when it still has a slot.  A handle
\* is disposed at its last occurrence and skipped at the earlier ones, so
\* the loop is the disposal of the distinct handles of todo in descending
\* order of their last index.
LastIndex(q, h) == CHOOSE i \in 1..Len(q) : q[i] = h /\ \A j \in (i + 1)..Len(q) : q[j] # h

RECURSIVE DrainPending(_, _)
DrainPending(s, todo) ==
  IF todo = {} THEN s
  ELSE LET h == CHOOSE x \in todo : \A y \in todo :
                      LastIndex(s.pendingDispose, y) <= LastIndex(s.pendingDispose, x)
       IN DrainPending(IF HasSlot(s.maps[h].slot) THEN Dispose(s, h) ELSE s, todo \ {h})

\* maybeGC that counts the operation and tests the thresholds on the
\* operation counter alone, strictly
maybeGCStrict(s) ==
  IF ~autoGCEnabled THEN s
  ELSE LET s1 == [s EXCEPT !.opsSinceGC = @ + 1] IN
       IF Len(s1.pendingDispose) > 0 /\ s1.opsSinceGC > gcOpsThreshold
       THEN [DrainPending(s1, {s1.pendingDispose[i] : i \in 1..Len(s1.pendingDispose)})
               EXCEPT !.pendingDispose = <<>>, !.opsSinceGC = 0]
       ELSE s1

maybeGC(s) ==
  IF ~autoGCEnabled THEN s
  ELSE LET s1 == [s EXCEPT !.opsSinceGC = @ + 1] IN
       IF Len(s1.pendingDispose) > 0
          /\ (s1.opsSinceGC >= gcOpsThreshold \/ getUsedBytes(s1.wasm) > gcMemoryThreshold)
       THEN [DrainPending(s1, {s1.pendingDispose[i] : i \in 1..Len(s1.pendingDispose)})
               EXCEPT !.pendingDispose = <<>>, !.opsSinceGC = 0]
       ELSE s1

trackForGC(s, h) ==
  IF autoGCEnabled /\ HasSlot(s.maps[h].slot)
  THEN [s EXCEPT !.pendingDispose = Append(@, h)]
  ELSE s

\* set(key, value)
MapSetOp(s, h, k, v) ==
  LET s1 == trackForGC(maybeGC(s), h)
      me == s1.maps[h]
      r  == insertKey(s1.wasm, me.root, k, v)
  IN Construct([s1 EXCEPT !.wasm = r.w], me.type, r.newRoot,
               me.size + (IF r.existed THEN 0 ELSE 1))

\* delete(key)
MapDeleteOp(s, h, k) ==
  LET s1 == maybeGC(s)
      me == s1.maps[h]
      r  == tryRemove(s1.wasm, me.root, k)
  IN IF r.newRoot = NotFound THEN [s |-> s1, id |-> h]
     ELSE Construct([trackForGC(s1, h) EXCEPT !.wasm = r.w], me.type, r.newRoot, me.size - 1)

\* SharedSet.toWorkerData(), then the value codec of a nested type: the
\* stored value is the JSON text of {__t, __i, __d: {root, size}}; the text
\* is represented by the number that encodes root and size
EncodeNested(root, size) == EnvBase + root * EnvStride + size

\* decodeNested(), then SharedSet.fromWorkerData(): a handle on the stored
\* root with the stored size, without a root slot
DecodeNested(v) == [root |-> (v - EnvBase) \div EnvStride,
                    size |-> (v - EnvBase) % EnvStride]

\* reads of a handle
MapView(w, m) == HamtContent(w, m.root)
MapHas(w, m, k) == k \in DOMAIN MapView(w, m)
MapGet(w, m, k) == IF MapHas(w, m, k) THEN <<MapView(w, m)[k]>> ELSE <<>>
MapSize(m) == m.size

\* pendingDispose keeps a strong reference to the handles it lists
Pending(h) == \E i \in 1..Len(pendingDispose) : pendingDispose[i] = h

Commit(s) ==
  /\ generation' = s.generation
  /\ opsSinceGC' = s.opsSinceGC
  /\ pendingDispose' = s.pendingDispose
  /\ freeSlots' = s.freeSlots
  /\ registry' = s.registry
  /\ maps' = s.maps
  /\ wasm' = s.wasm

InitMap ==
  /\ generation = 0
  /\ autoGCEnabled = TRUE
  /\ gcMemoryThreshold = GcMemoryThresholdDefault
  /\ gcOpsThreshold = GcOpsThresholdDefault
  /\ opsSinceGC = 0
  /\ pendingDispose = <<>>
  /\ freeSlots = <<>>
  /\ registry = {}
  /\ maps = [i \in {} |-> 0]
  /\ wasm = WasmInit
  /\ nested = {}

Config == <<autoGCEnabled, gcMemoryThreshold, gcOpsThreshold>>

\* new SharedMap(type)
MapNew(type) ==
  /\ DOMAIN maps # MapIds
  /\ \A i \in DOMAIN maps : maps[i].root # 0
  /\ LET r == Construct(MapSt, type, 0, 0)
     IN /\ Commit(r.s)
  /\ UNCHANGED <<Config, nested, notMap>>

\* r = h.set(k, v), the caller keeps r
MapSet(h, k, v) ==
  /\ h \in DOMAIN maps
  /\ maps[h].type = TypeNumber
  /\ DOMAIN maps # MapIds
  /\ LET r == MapSetOp(MapSt, h, k, v)
     IN /\ ArenaOk(r.s.wasm)
        /\ Commit(r.s)
  /\ UNCHANGED <<Config, nested, notMap>>

\* r = h.delete(k), the caller keeps r
MapDelete(h, k) ==
  /\ h \in DOMAIN maps
  /\ maps[h].type = TypeNumber
  /\ DOMAIN maps # MapIds
  /\ LET r == MapDeleteOp(MapSt, h, k)
     IN /\ ArenaOk(r.s.wasm)
        /\ Commit(r.s)
  /\ UNCHANGED <<Config, nested, notMap>>

\* what m2.get(key) returns for a stored set: its members and its size
NestedGet(w, m, k) ==
  LET got == DecodeNested(MapView(w, m)[k])
  IN [members |-> DOMAIN HamtContent(w, got.root), size |-> got.size]

\* r = s.add(x) on the SharedSet whose _map is h; when x is a member add()
\* returns s itself and nothing changes
SetAdd(h, x) ==
  /\ h \in DOMAIN maps
  /\ maps[h].type = TypeNumber
  /\ ~MapHas(wasm, maps[h], x)
  /\ DOMAIN maps # MapIds
  /\ LET r == MapSetOp(MapSt, h, x, SetMember)
     IN /\ ArenaOk(r.s.wasm)
        /\ Commit(r.s)
  /\ UNCHANGED <<Config, nested, notMap>>

\* r = s.delete(x) on the SharedSet whose _map is h
SetDelete(h, x) == MapDelete(h, x)

\* m2 = m.set(k, s): m is a SharedMap<'SharedSet<string>'>, s the SharedSet
\* whose _map is h
MapSetNested(m, k, h) ==
  /\ m \in DOMAIN maps /\ h \in DOMAIN maps
  /\ maps[m].type = TypeNestedSet
  /\ maps[h].type = TypeNumber
  /\ DOMAIN maps # MapIds
  /\ LET r == MapSetOp(MapSt, m, k, EncodeNested(maps[h].root, maps[h].size))
     IN /\ ArenaOk(r.s.wasm)
        /\ Commit(r.s)
        /\ nested' = nested \cup
             {[outer |-> r.id, key |-> k, inner |-> h,
               members |-> NestedGet(r.s.wasm, r.s.maps[r.id], k).members,
               size    |-> NestedGet(r.s.wasm, r.s.maps[r.id], k).size]}
  /\ UNCHANGED <<Config, notMap>>

\* h.dispose() called by the caller
MapDispose(h) ==
  /\ h \in DOMAIN maps
  /\ Commit([Dispose(MapSt, h) EXCEPT !.maps[h].userDisposed = TRUE])
  /\ UNCHANGED <<Config, nested, notMap>>

\* the caller drops its last reference to h, the garbage collector collects
\* h and runs the registry callback for it
MapFinalize(h) ==
  /\ h \in DOMAIN maps
  /\ ~Pending(h)
  /\ LET cells == {c \in registry : c.target = h}
         fire  == {c \in cells : c.gen = generation}
         w1 == IF fire = {} THEN wasm
               ELSE unregisterRoot(wasm, (CHOOSE c \in fire : TRUE).slot)
     IN /\ wasm' = w1
        /\ registry' = registry \ cells
        /\ maps' = WithoutMap(maps, h)
  /\ nested' = {e \in nested : e.outer # h /\ e.inner # h}
  /\ UNCHANGED <<generation, opsSinceGC, pendingDispose, freeSlots,
                 Config, notMap>>

\* resetMap()
ResetMap ==
  /\ generation < MaxGen
  /\ generation' = generation + 1
  /\ wasm' = wasmReset(wasm)
  /\ freeSlots' = <<>>
  /\ pendingDispose' = <<>>
  /\ opsSinceGC' = 0
  /\ UNCHANGED <<registry, maps, Config, nested, notMap>>

vars == <<mapVars, workerVars, dllVars, sllVars, pqVars, omVars, rbVars, moreVars, last>>

\* ------------------------------------------------------------------------
\* Initial state: every module right after it is loaded
\* ------------------------------------------------------------------------
InitWorkerVars ==
  /\ workerData = <<>>
  /\ restored = <<>>

InitDll ==
  /\ dllMem = [c \in ListCells |-> [prev |-> 0, next |-> 0, value |-> 0]]
  /\ dllHeapEnd = 1
  /\ dllFreeList = 0
  /\ dllLists = [i \in {} |-> 0]

InitPq ==
  /\ pqHeaps = [a \in {} |-> 0]
  /\ pqBlobs = [a \in {} |-> 0]
  /\ pqHeapEnd = PqHeapStart
  /\ pqQueues = [i \in {} |-> 0]

InitOm ==
  /\ omMem = [a \in {} |-> 0]
  /\ omHeapEnd = OmHeapStart
  /\ omMaps = [i \in {} |-> 0]

RbAddrs == RbHeapStart..(RbHeapStart + MaxRbBytes + NodeSize + 1)

InitRb ==
  /\ rbMem = [x \in RbAddrs |-> 0]
  /\ rbHeapEnd = RbHeapStart
  /\ rbFreeList = 0
  /\ rbMaps = [i \in {} |-> 0]
  /\ rbCalls = 0
  /\ rbGeneration = 0

InitSll ==
  /\ sllMem = [c \in ListCells |-> [next |-> 0, value |-> 0]]
  /\ sllHeapEnd = 1
  /\ sllFreeList = 0
  /\ sllLists = [i \in {} |-> 0]

\* a worker thread after its modules loaded: the doubly-linked-list module
\* ran initWasm() and so has a memory of its own and a fresh wasm instance
InitAtt ==
  /\ snapshot = <<>>
  /\ workerInitialized = FALSE
  /\ wkAttached = FALSE
  /\ wkMem = [c \in ListCells |-> [prev |-> 0, next |-> 0, value |-> 0]]
  /\ wkHeapEnd = 1
  /\ wkFreeList = 0
  /\ wkLists = [i \in {} |-> 0]
  /\ wkInits = 0

InitSl ==
  /\ slGeneration = 0
  /\ slVecs = [r \in {} |-> 0]
  /\ slRefs = [r \in {} |-> 0]
  /\ slHeapEnd = 1
  /\ slLists = [i \in {} |-> 0]

InitLh ==
  /\ lhMem = [x \in {} |-> 0]
  /\ lhHeapEnd = LhHeapStart
  /\ lhFreeList = 0
  /\ lhRoots = <<>>

InitAll ==
  /\ InitMap
  /\ InitWorkerVars
  /\ InitDll
  /\ InitSll
  /\ InitPq
  /\ InitOm
  /\ InitRb
  /\ InitAtt
  /\ InitSl
  /\ InitLh
  /\ last = [op |-> "init", h |-> 0]

\* the program started under Node.js
Init == InitAll /\ isBun = FALSE

\* the program started under Node.js or under Bun
InitEitherRuntime == InitAll /\ isBun \in BOOLEAN

NextMap ==
  \/ MapNew(TypeNumber)
  \/ \E h \in MapIds, k \in Keys, v \in Vals : opsSinceGC < MaxOps /\ MapSet(h, k, v)
  \/ \E h \in MapIds, k \in Keys : opsSinceGC < MaxOps /\ MapDelete(h, k)
  \/ \E h \in MapIds : MapDispose(h)
  \/ \E h \in MapIds : MapFinalize(h)
  \/ ResetMap

SpecMap == Init /\ [][NextMap]_vars

\* ------------------------------------------------------------------------
\* Auto-GC under thresholds the program sets itself (SpecGcConf).  The
\* program sets the thresholds before it creates its first map and switches
\* auto-GC off and on at any time; its calls write one key.
\* ------------------------------------------------------------------------
\* an optional field of opts: <<>> when it is undefined
GcOptEnabled == {<<>>, <<TRUE>>, <<FALSE>>}
GcOptMemory == {<<>>, <<HamtNodeBytes>>}
GcOptOps == {<<>>} \cup {<<n>> : n \in 1..MaxOps}

\* configureAutoGC(opts)
ConfigureAutoGC(enabled, memoryThreshold, opsThreshold) ==
  /\ autoGCEnabled' = IF enabled # <<>> THEN enabled[1] ELSE autoGCEnabled
  /\ gcMemoryThreshold' =
       IF memoryThreshold # <<>> THEN memoryThreshold[1] ELSE gcMemoryThreshold
  /\ gcOpsThreshold' = IF opsThreshold # <<>> THEN opsThreshold[1] ELSE gcOpsThreshold
  /\ UNCHANGED <<generation, opsSinceGC, pendingDispose, freeSlots, registry,
                 maps, wasm, nested, notMap>>

GcKeys == {1}

NextGcConf ==
  \/ MapNew(TypeNumber)
  \/ \E h \in MapIds, k \in GcKeys, v \in Vals : opsSinceGC < MaxOps /\ MapSet(h, k, v)
  \/ \E h \in MapIds, k \in GcKeys : opsSinceGC < MaxOps /\ MapDelete(h, k)
  \/ \E h \in MapIds : MapFinalize(h)
  \/ \E e \in GcOptEnabled, m \in GcOptMemory, o \in GcOptOps :
       /\ IF DOMAIN maps = {} THEN e = <<>> /\ o # <<>>
          ELSE e # <<>> /\ m = <<>> /\ o = <<>>
       /\ ConfigureAutoGC(e, m, o)

SpecGcConf == Init /\ [][NextGcConf]_vars

\* the condition of the claim at the start of a call
GcDue ==
  /\ autoGCEnabled
  /\ \/ Len(pendingDispose) >= gcOpsThreshold
     \/ Len(pendingDispose) > 0 /\ getUsedBytes(wasm) > gcMemoryThreshold

\* the call on h drained the list: maybeGC left it empty, every handle that
\* was on it has lost its root slot, and after the call the list holds at
\* most h, which trackForGC put there after the drain
GcDrained(h) ==
  /\ maybeGC(MapSt).pendingDispose = <<>>
  /\ \A i \in 1..Len(pendingDispose) : ~HasSlot(maps'[pendingDispose[i]].slot)
  /\ pendingDispose' \in {<<>>, <<h>>}

\* C24: while auto-GC is enabled, a set or delete call that starts with at
\* least opsThreshold handles on the pending list, or with a non-empty
\* pending list and more used bytes than memoryThreshold, drains the list
\* to empty before it writes.
C24_GcDrainsWhenDue ==
  [][\A h \in MapIds, k \in GcKeys :
       (MapDelete(h, k) \/ \E v \in Vals : MapSet(h, k, v)) =>
         (GcDue => GcDrained(h))]_vars

\* a call has just drained a list of two handles: both are without a slot
\* and the list holds at most the handle of the call
C24_Witness ==
  /\ autoGCEnabled
  /\ gcOpsThreshold = 2
  /\ opsSinceGC = 0
  /\ Len(pendingDispose) <= 1
  /\ Cardinality({g \in DOMAIN maps : maps[g].slot0 # NoSlot /\ maps[g].slot = NoSlot
                                       /\ ~maps[g].userDisposed}) >= 2

\* ------------------------------------------------------------------------
\* SharedDoublyLinkedList.  A cell stands for the 16 bytes of a node:
\* [prev:4][next:4][value:8]; cell c is the address HEAP_START + 16 * (c - 1).
\* ------------------------------------------------------------------------
DllSt == [mem |-> dllMem, heapEnd |-> dllHeapEnd, freeList |-> dllFreeList]

DllRoom(a) == a.freeList # 0 \/ a.heapEnd <= MaxListNodes

\* allocNode(): the free-list link is the word at ptr + 4
DllAllocNode(a) ==
  IF a.freeList # 0
  THEN [ptr |-> a.freeList, a |-> [a EXCEPT !.freeList = a.mem[a.freeList].next]]
  ELSE [ptr |-> a.heapEnd, a |-> [a EXCEPT !.heapEnd = @ + 1]]

DllGetPrev(a, node) == IF node # 0 THEN a.mem[node].prev ELSE 0
DllGetNext(a, node) == IF node # 0 THEN a.mem[node].next ELSE 0
DllSetPrev(a, node, prev) == IF node # 0 THEN [a EXCEPT !.mem[node].prev = prev] ELSE a
DllSetNext(a, node, next) == IF node # 0 THEN [a EXCEPT !.mem[node].next = next] ELSE a

\* prepend(head, val)
DllWasmPrepend(a, head, val) ==
  LET n  == DllAllocNode(a)
      a1 == [n.a EXCEPT !.mem[n.ptr] = [prev |-> 0, next |-> head, value |-> val]]
  IN [a |-> IF head # 0 THEN [a1 EXCEPT !.mem[head].prev = n.ptr] ELSE a1, node |-> n.ptr]

\* append(tail, val)
DllWasmAppend(a, tail, val) ==
  LET n  == DllAllocNode(a)
      a1 == [n.a EXCEPT !.mem[n.ptr] = [prev |-> tail, next |-> 0, value |-> val]]
  IN [a |-> IF tail # 0 THEN [a1 EXCEPT !.mem[tail].next = n.ptr] ELSE a1, node |-> n.ptr]

\* forEach: from head along next until 0.  The walk is cut after Fuel nodes
\* (a walk that long has entered a cycle).
Fuel == MaxListNodes + 1

RECURSIVE DllWalk(_, _, _)
DllWalk(mem, node, fuel) ==
  IF node = 0 \/ fuel = 0 THEN <<>>
  ELSE <<mem[node].value>> \o DllWalk(mem, mem[node].next, fuel - 1)

\* forEachReverse: from tail along prev until 0
RECURSIVE DllWalkReverse(_, _, _)
DllWalkReverse(mem, node, fuel) ==
  IF node = 0 \/ fuel = 0 THEN <<>>
  ELSE <<mem[node].value>> \o DllWalkReverse(mem, mem[node].prev, fuel - 1)

DllToArray(mem, l) == DllWalk(mem, l.head, Fuel)
DllToArrayReverse(mem, l) == DllWalkReverse(mem, l.tail, Fuel)

FreshListId(ls) == CHOOSE i \in ListIds \ DOMAIN ls : \A j \in ListIds \ DOMAIN ls : i <= j
WithList(ls, id, l) == [x \in (DOMAIN ls) \cup {id} |-> IF x = id THEN l ELSE ls[x]]

notDll == <<mapVars, workerVars, sllVars, pqVars, omVars, rbVars, moreVars>>

DllCommit(a) ==
  /\ dllMem' = a.mem
  /\ dllHeapEnd' = a.heapEnd
  /\ dllFreeList' = a.freeList

\* the caller keeps the list r returned by operation op on list h
DllReturn(op, h, l) ==
  LET id == FreshListId(dllLists)
  IN /\ dllLists' = WithList(dllLists, id, l)
     /\ last' = [op |-> op, h |-> h, r |-> id]

\* new SharedDoublyLinkedList('number')
DllNew ==
  /\ DOMAIN dllLists # ListIds
  /\ \A i \in DOMAIN dllLists : dllLists[i].size # 0
  /\ DllReturn("dll.new", 0, [head |-> 0, tail |-> 0, size |-> 0])
  /\ UNCHANGED <<dllMem, dllHeapEnd, dllFreeList, notDll>>

\* l2 = l1.prepend(v)
DllPrepend(h, v) ==
  /\ h \in DOMAIN dllLists /\ DOMAIN dllLists # ListIds
  /\ DllRoom(DllSt) /\ dllLists[h].size < MaxListNodes
  /\ LET l == dllLists[h]
         r == DllWasmPrepend(DllSt, l.head, v)
     IN /\ DllCommit(r.a)
        /\ DllReturn("dll.prepend", h,
             [head |-> r.node, tail |-> IF l.tail # 0 THEN l.tail ELSE r.node,
              size |-> l.size + 1])
  /\ UNCHANGED notDll

\* l2 = l1.append(v)
DllAppend(h, v) ==
  /\ h \in DOMAIN dllLists /\ DOMAIN dllLists # ListIds
  /\ DllRoom(DllSt) /\ dllLists[h].size < MaxListNodes
  /\ LET l == dllLists[h]
         r == DllWasmAppend(DllSt, l.tail, v)
     IN /\ DllCommit(r.a)
        /\ DllReturn("dll.append", h,
             [head |-> IF l.head # 0 THEN l.head ELSE r.node, tail |-> r.node,
              size |-> l.size + 1])
  /\ UNCHANGED notDll

\* removeFirst()
DllRemoveFirstOp(a, l) ==
  LET newHead == DllGetNext(a, l.head)
  IN [a |-> IF newHead # 0 THEN DllSetPrev(a, newHead, 0) ELSE a,
      l |-> [head |-> newHead, tail |-> IF newHead # 0 THEN l.tail ELSE 0,
             size |-> l.size - 1]]

\* removeLast()
DllRemoveLastOp(a, l) ==
  LET newTail == DllGetPrev(a, l.tail)
  IN [a |-> IF newTail # 0 THEN DllSetNext(a, newTail, 0) ELSE a,
      l |-> [head |-> IF newTail # 0 THEN l.head ELSE 0, tail |-> newTail,
             size |-> l.size - 1]]

\* removeLast() without the test of the size: getPrev(0) is 0
DllRemoveLastNoTest(h) ==
  /\ h \in DOMAIN dllLists
  /\ DOMAIN dllLists # ListIds
  /\ LET r == DllRemoveLastOp(DllSt, dllLists[h])
     IN DllCommit(r.a) /\ DllReturn("dll.removeLast", h, r.l)
  /\ UNCHANGED notDll

\* l2 = l1.removeFirst(); on a list of size 0 the call returns l1 itself
DllRemoveFirst(h) ==
  /\ h \in DOMAIN dllLists
  /\ IF dllLists[h].size = 0
     THEN /\ last' = [op |-> "dll.removeFirst", h |-> h, r |-> h]
          /\ UNCHANGED dllVars
     ELSE /\ DOMAIN dllLists # ListIds
          /\ LET r == DllRemoveFirstOp(DllSt, dllLists[h])
             IN DllCommit(r.a) /\ DllReturn("dll.removeFirst", h, r.l)
  /\ UNCHANGED notDll

\* l2 = l1.removeLast(); on a list of size 0 the call returns l1 itself
DllRemoveLast(h) ==
  /\ h \in DOMAIN dllLists
  /\ IF dllLists[h].size = 0
     THEN /\ last' = [op |-> "dll.removeLast", h |-> h, r |-> h]
          /\ UNCHANGED dllVars
     ELSE /\ DOMAIN dllLists # ListIds
          /\ LET r == DllRemoveLastOp(DllSt, dllLists[h])
             IN DllCommit(r.a) /\ DllReturn("dll.removeLast", h, r.l)
  /\ UNCHANGED notDll

\* the caller lets go of a list object; nothing is released in the arena
DllDrop(h) ==
  /\ h \in DOMAIN dllLists
  /\ dllLists' = [x \in (DOMAIN dllLists) \ {h} |-> dllLists[x]]
  /\ last' = [op |-> "dll.drop", h |-> 0]
  /\ UNCHANGED <<dllMem, dllHeapEnd, dllFreeList, notDll>>

NextDll ==
  \/ DllNew
  \/ \E h \in ListIds, v \in ListVals : DllPrepend(h, v)
  \/ \E h \in ListIds, v \in ListVals : DllAppend(h, v)
  \/ \E h \in ListIds : DllRemoveFirst(h)
  \/ \E h \in ListIds : DllRemoveLast(h)
  \/ \E h \in ListIds : DllDrop(h)

SpecDll == Init /\ [][NextDll]_vars

\* C5: l2 = l1.prepend(v) and l2 = l1.append(v) leave l1.size, l1.toArray()
\* and l1.toArrayReverse() unchanged.
C5_DllOriginalUnchanged ==
  [][last'.op \in {"dll.prepend", "dll.append"} =>
       /\ dllLists'[last'.h] = dllLists[last'.h]
       /\ DllToArray(dllMem', dllLists[last'.h]) = DllToArray(dllMem, dllLists[last'.h])
       /\ DllToArrayReverse(dllMem', dllLists[last'.h])
            = DllToArrayReverse(dllMem, dllLists[last'.h])]_vars

SeqReverse(q) == [i \in 1..Len(q) |-> q[Len(q) + 1 - i]]

\* C23: for every SharedDoublyLinkedList handle the caller holds, at any
\* time, toArrayReverse() is toArray() read backwards.
C23_DllReverseMirrors ==
  \A h \in DOMAIN dllLists :
    DllToArrayReverse(dllMem, dllLists[h]) = SeqReverse(DllToArray(dllMem, dllLists[h]))

\* ------------------------------------------------------------------------
\* SharedLinkedList.  A cell stands for the 16 bytes of a node:
\* [next:4][value:8]; cell c is the address HEAP_START + 16 * (c - 1).
\* ------------------------------------------------------------------------
SllSt == [mem |-> sllMem, heapEnd |-> sllHeapEnd, freeList |-> sllFreeList]

SllRoom(a) == a.freeList # 0 \/ a.heapEnd <= MaxListNodes

\* allocNode(): the free-list link is the word at ptr
SllAllocNode(a) ==
  IF a.freeList # 0
  THEN [ptr |-> a.freeList, a |-> [a EXCEPT !.freeList = a.mem[a.freeList].next]]
  ELSE [ptr |-> a.heapEnd, a |-> [a EXCEPT !.heapEnd = @ + 1]]

\* freeNode(ptr)
SllFreeNode(a, ptr) == [a EXCEPT !.mem[ptr].next = a.freeList, !.freeList = ptr]

SllGetNext(a, node) == IF node # 0 THEN a.mem[node].next ELSE 0

\* prepend(head, val)
SllWasmPrepend(a, head, val) ==
  LET n == SllAllocNode(a)
  IN [a |-> [n.a EXCEPT !.mem[n.ptr] = [next |-> head, value |-> val]], node |-> n.ptr]

\* append(tail, val)
SllWasmAppend(a, tail, val) ==
  LET n  == SllAllocNode(a)
      a1 == [n.a EXCEPT !.mem[n.ptr] = [next |-> 0, value |-> val]]
  IN [a |-> IF tail # 0 THEN [a1 EXCEPT !.mem[tail].next = n.ptr] ELSE a1, node |-> n.ptr]

\* insertAfter(node, val)
SllWasmInsertAfter(a, node, val) ==
  LET n  == SllAllocNode(a)
      a1 == [n.a EXCEPT !.mem[n.ptr] = [next |-> n.a.mem[node].next, value |-> val]]
  IN [a |-> [a1 EXCEPT !.mem[node].next = n.ptr], node |-> n.ptr]

\* removeAfter(node)
SllWasmRemoveAfter(a, node) ==
  LET toRemove == a.mem[node].next IN
  IF node = 0 \/ toRemove = 0 THEN a
  ELSE SllFreeNode([a EXCEPT !.mem[node].next = a.mem[toRemove].next], toRemove)

\* getAt(head, index)
RECURSIVE SllGetAt(_, _, _)
SllGetAt(a, curr, index) ==
  IF index = 0 \/ curr = 0 THEN curr ELSE SllGetAt(a, a.mem[curr].next, index - 1)

\* forEach: from head along next until 0, cut after Fuel nodes
RECURSIVE SllWalk(_, _, _)
SllWalk(mem, node, fuel) ==
  IF node = 0 \/ fuel = 0 THEN <<>>
  ELSE <<mem[node].value>> \o SllWalk(mem, mem[node].next, fuel - 1)

SllToArray(mem, l) == SllWalk(mem, l.head, Fuel)

notSll == <<mapVars, workerVars, dllVars, pqVars, omVars, rbVars, moreVars>>

SllCommit(a) ==
  /\ sllMem' = a.mem
  /\ sllHeapEnd' = a.heapEnd
  /\ sllFreeList' = a.freeList

\* the caller keeps the list returned by operation op on list h
SllReturn(op, h, l) ==
  LET id == FreshListId(sllLists)
  IN /\ sllLists' = WithList(sllLists, id, l)
     /\ last' = [op |-> op, h |-> h, r |-> id]

\* new SharedLinkedList('number')
SllNew ==
  /\ DOMAIN sllLists # ListIds
  /\ \A i \in DOMAIN sllLists : sllLists[i].size # 0
  /\ SllReturn("sll.new", 0, [head |-> 0, tail |-> 0, size |-> 0])
  /\ UNCHANGED <<sllMem, sllHeapEnd, sllFreeList, notSll>>

\* l2 = l1.prepend(v)
SllPrepend(h, v) ==
  /\ h \in DOMAIN sllLists /\ DOMAIN sllLists # ListIds
  /\ SllRoom(SllSt) /\ sllLists[h].size < MaxListNodes
  /\ LET l == sllLists[h]
         r == SllWasmPrepend(SllSt, l.head, v)
     IN /\ SllCommit(r.a)
        /\ SllReturn("sll.prepend", h,
             [head |-> r.node, tail |-> IF l.tail # 0 THEN l.tail ELSE r.node,
              size |-> l.size + 1])
  /\ UNCHANGED notSll

\* l2 = l1.append(v)
SllAppend(h, v) ==
  /\ h \in DOMAIN sllLists /\ DOMAIN sllLists # ListIds
  /\ SllRoom(SllSt) /\ sllLists[h].size < MaxListNodes
  /\ LET l == sllLists[h]
         r == SllWasmAppend(SllSt, l.tail, v)
     IN /\ SllCommit(r.a)
        /\ SllReturn("sll.append", h,
             [head |-> IF l.head # 0 THEN l.head ELSE r.node, tail |-> r.node,
              size |-> l.size + 1])
  /\ UNCHANGED notSll

\* l2 = l1.removeFirst(); on a list of size 0 the call returns l1 itself
SllRemoveFirst(h) ==
  /\ h \in DOMAIN sllLists
  /\ IF sllLists[h].size = 0
     THEN /\ last' = [op |-> "sll.removeFirst", h |-> h, r |-> h]
          /\ UNCHANGED sllLists
     ELSE /\ DOMAIN sllLists # ListIds
          /\ LET l == sllLists[h]
                 newHead == SllGetNext(SllSt, l.head)
             IN SllReturn("sll.removeFirst", h,
                  [head |-> newHead, tail |-> IF newHead # 0 THEN l.tail ELSE 0,
                   size |-> l.size - 1])
  /\ UNCHANGED <<sllMem, sllHeapEnd, sllFreeList, notSll>>

\* l2 = l1.insertAfter(index, v) with index in range
SllInsertAfter(h, index, v) ==
  /\ h \in DOMAIN sllLists /\ DOMAIN sllLists # ListIds
  /\ index >= 0 /\ index < sllLists[h].size
  /\ SllRoom(SllSt) /\ sllLists[h].size < MaxListNodes
  /\ LET l == sllLists[h]
         node == SllGetAt(SllSt, l.head, index)
     IN /\ node # 0
        /\ LET r == SllWasmInsertAfter(SllSt, node, v)
           IN /\ SllCommit(r.a)
              /\ SllReturn("sll.insertAfter", h,
                   [head |-> l.head,
                    tail |-> IF index = l.size - 1 THEN r.node ELSE l.tail,
                    size |-> l.size + 1])
  /\ UNCHANGED notSll

\* l2 = l1.removeAfter(index) with index in range
SllRemoveAfter(h, index) ==
  /\ h \in DOMAIN sllLists /\ DOMAIN sllLists # ListIds
  /\ index >= 0 /\ index < sllLists[h].size - 1
  /\ LET l == sllLists[h]
         node == SllGetAt(SllSt, l.head, index)
     IN /\ node # 0
        /\ SllCommit(SllWasmRemoveAfter(SllSt, node))
        /\ SllReturn("sll.removeAfter", h,
             [head |-> l.head,
              tail |-> IF index = l.size - 2 THEN node ELSE l.tail,
              size |-> l.size - 1])
  /\ UNCHANGED notSll

\* the caller lets go of a list object; nothing is released in the arena
SllDrop(h) ==
  /\ h \in DOMAIN sllLists
  /\ sllLists' = [x \in (DOMAIN sllLists) \ {h} |-> sllLists[x]]
  /\ last' = [op |-> "sll.drop", h |-> 0]
  /\ UNCHANGED <<sllMem, sllHeapEnd, sllFreeList, notSll>>

NextSll ==
  \/ SllNew
  \/ \E h \in ListIds, v \in ListVals : SllPrepend(h, v)
  \/ \E h \in ListIds, v \in ListVals : SllAppend(h, v)
  \/ \E h \in ListIds : SllRemoveFirst(h)
  \/ \E h \in ListIds, i \in 0..(MaxListNodes - 1), v \in ListVals : SllInsertAfter(h, i, v)
  \/ \E h \in ListIds, i \in 0..(MaxListNodes - 1) : SllRemoveAfter(h, i)
  \/ \E h \in ListIds : SllDrop(h)

SpecSll == Init /\ [][NextSll]_vars

\* C6: l2 = l1.prepend(v) and l2 = l1.append(v) leave l1.size and
\* l1.toArray() unchanged.
C6_SllOriginalUnchanged ==
  [][last'.op \in {"sll.prepend", "sll.append"} =>
       /\ sllLists'[last'.h] = sllLists[last'.h]
       /\ SllToArray(sllMem', sllLists[last'.h]) = SllToArray(sllMem, sllLists[last'.h])]_vars

\* the nodes on the next-chain from node, cut after fuel nodes
RECURSIVE SllChain(_, _, _)
SllChain(mem, node, fuel) ==
  IF node = 0 \/ fuel = 0 THEN {}
  ELSE {node} \cup SllChain(mem, mem[node].next, fuel - 1)

\* the nodes that list object l names or leads to
SllReach(mem, l) == (SllChain(mem, l.head, Fuel) \cup {l.tail}) \ {0}

\* C31: a node that a removal put on the free-list is not handed out again
\* by allocNode while a list object returned earlier still reaches it.
C31_SllNoReuseWhileReachable ==
  [][(last'.op \in {"sll.prepend", "sll.append", "sll.insertAfter"} /\ sllFreeList # 0)
       => \A h \in DOMAIN sllLists : sllFreeList \notin SllReach(sllMem, sllLists[h])]_vars

\* the nodes from node along next until 0, in order, cut after fuel nodes
RECURSIVE SllNodes(_, _, _)
SllNodes(mem, node, fuel) ==
  IF node = 0 \/ fuel = 0 THEN <<>>
  ELSE <<node>> \o SllNodes(mem, mem[node].next, fuel - 1)

SllWellFormed(mem, l) ==
  LET chain == SllNodes(mem, l.head, Fuel)
  IN /\ Len(chain) = l.size
     /\ l.tail = (IF chain = <<>> THEN 0 ELSE chain[Len(chain)])
     /\ (l.head = 0 /\ l.tail = 0) <=> (l.size = 0)

\* C32: a list object is well-formed when it is returned, whichever list
\* object the call was made on: the next-chain from head has exactly size
\* nodes, its last node is tail, and head = tail = 0 exactly when size = 0.
C32_SllReturnedWellFormed ==
  (last.op \in {"sll.new", "sll.prepend", "sll.append", "sll.removeFirst",
                "sll.insertAfter", "sll.removeAfter"} /\ last.r \in DOMAIN sllLists)
    => SllWellFormed(sllMem, sllLists[last.r])

\* ------------------------------------------------------------------------
\* SharedPriorityQueue over the binary heap.  A heap is the array
\* [capacity:u32][size:u32][entries] at its address; the entries at and
\* after size are never read, so a heap is kept as its capacity and the
\* sequence of its first size entries (entry i of the code is entries[i+1]).
\* Values are strings, given as byte sequences.
\* ------------------------------------------------------------------------
PqIds == 1..MaxPqHandles
PqVals == {<<97>>, <<98>>}
Priorities == 1..MaxPriority

PqSt == [heaps |-> pqHeaps, blobs |-> pqBlobs, heapEnd |-> pqHeapEnd]

\* alloc(size)
PqAlloc(a, size) == [ptr |-> a.heapEnd, a |-> [a EXCEPT !.heapEnd = @ + size]]

\* allocBlob(len): the bytes are copied from BLOB_BUF, where the wrapper
\* has just written them
PqAllocBlob(a, bytes) ==
  LET r == PqAlloc(a, Len(bytes))
      addrs == {r.ptr + i - 1 : i \in 1..Len(bytes)}
  IN [ptr |-> r.ptr,
      a   |-> [r.a EXCEPT !.blobs = [x \in (DOMAIN a.blobs) \cup addrs |->
                             IF x \in addrs THEN bytes[x - r.ptr + 1] ELSE a.blobs[x]]]]

\* createHeap(initialCapacity)
PqCreateHeap(a, initialCapacity) ==
  LET cap == IF initialCapacity > 0 THEN initialCapacity ELSE 16
      r   == PqAlloc(a, PqHeapHeader + cap * PqEntrySize)
  IN [ptr |-> r.ptr,
      a   |-> [r.a EXCEPT !.heaps = [x \in (DOMAIN a.heaps) \cup {r.ptr} |->
                             IF x = r.ptr THEN [cap |-> cap, entries |-> <<>>]
                             ELSE a.heaps[x]]]]

\* cmp of siftUp / siftDown: entry x goes above entry y
PqBetter(x, y, isMaxHeap) ==
  IF isMaxHeap THEN x.priority > y.priority ELSE x.priority < y.priority

PqSwap(es, i, j) == [es EXCEPT ![i + 1] = es[j + 1], ![j + 1] = es[i + 1]]

\* siftUp(heap, i, isMaxHeap)
RECURSIVE PqSiftUp(_, _, _)
PqSiftUp(es, i, isMaxHeap) ==
  IF i = 0 THEN es
  ELSE LET parent == (i - 1) \div 2 IN
       IF ~PqBetter(es[i + 1], es[parent + 1], isMaxHeap) THEN es
       ELSE PqSiftUp(PqSwap(es, i, parent), parent, isMaxHeap)

\* siftDown(heap, i, size, isMaxHeap)
RECURSIVE PqSiftDown(_, _, _, _)
PqSiftDown(es, i, size, isMaxHeap) ==
  LET left  == 2 * i + 1
      right == left + 1
      b1 == IF left < size /\ PqBetter(es[left + 1], es[i + 1], isMaxHeap) THEN left ELSE i
      best == IF right < size /\ PqBetter(es[right + 1], es[b1 + 1], isMaxHeap)
              THEN right ELSE b1
  IN IF best = i THEN es ELSE PqSiftDown(PqSwap(es, i, best), best, size, isMaxHeap)

\* insert without the siftUp that restores the heap order
PqInsertNoSiftUp(a, heap, priority, valuePacked, isMaxHeap) ==
  LET size == Len(a.heaps[heap].entries)
      cap  == a.heaps[heap].cap
      grow == size >= cap
      r    == PqAlloc(a, PqHeapHeader + (cap * 2) * PqEntrySize)
      h    == IF grow THEN r.ptr ELSE heap
      a1   == IF grow
              THEN [r.a EXCEPT !.heaps = [x \in (DOMAIN a.heaps) \cup {r.ptr} |->
                           IF x = r.ptr THEN [cap |-> cap * 2, entries |-> a.heaps[heap].entries]
                           ELSE a.heaps[x]]]
              ELSE a
  IN [ptr |-> h,
      a |-> [a1 EXCEPT !.heaps[h].entries =
               Append(@, [priority |-> priority, value |-> valuePacked])]]

\* insert(heap, priority, valuePacked, isMaxHeap): returns the heap address,
\* a new one when the heap was full and has been copied
PqInsert(a, heap, priority, valuePacked, isMaxHeap) ==
  LET size == Len(a.heaps[heap].entries)
      cap  == a.heaps[heap].cap
      grow == size >= cap
      r    == PqAlloc(a, PqHeapHeader + (cap * 2) * PqEntrySize)
      h    == IF grow THEN r.ptr ELSE heap
      a1   == IF grow
              THEN [r.a EXCEPT !.heaps = [x \in (DOMAIN a.heaps) \cup {r.ptr} |->
                           IF x = r.ptr THEN [cap |-> cap * 2, entries |-> a.heaps[heap].entries]
                           ELSE a.heaps[x]]]
              ELSE a
      es   == Append(a1.heaps[h].entries, [priority |-> priority, value |-> valuePacked])
  IN [ptr |-> h, a |-> [a1 EXCEPT !.heaps[h].entries = PqSiftUp(es, size, isMaxHeap)]]

\* extract without the siftDown that restores the heap order
PqExtractNoSift(a, heap, isMaxHeap) ==
  LET es   == a.heaps[heap].entries
      size == Len(es)
  IN IF size = 0 THEN a
     ELSE IF size = 1 THEN [a EXCEPT !.heaps[heap].entries = <<>>]
     ELSE [a EXCEPT !.heaps[heap].entries = SubSeq([es EXCEPT ![1] = es[size]], 1, size - 1)]

\* extract(heap, isMaxHeap)
PqExtract(a, heap, isMaxHeap) ==
  LET es   == a.heaps[heap].entries
      size == Len(es)
  IN IF size = 0 THEN a
     ELSE IF size = 1 THEN [a EXCEPT !.heaps[heap].entries = <<>>]
     ELSE [a EXCEPT !.heaps[heap].entries =
             PqSiftDown(SubSeq([es EXCEPT ![1] = es[size]], 1, size - 1), 0, size - 1, isMaxHeap)]

\* peekPriority(heap), peekValue(heap)
PqPeekPriority(a, heap) ==
  IF Len(a.heaps[heap].entries) > 0 THEN a.heaps[heap].entries[1].priority ELSE 0
PqPeekValue(a, heap) ==
  IF Len(a.heaps[heap].entries) > 0 THEN a.heaps[heap].entries[1].value ELSE 0

RECURSIVE PqBitOr(_, _)
\* x | y
PqBitOr(x, y) ==
  IF x = 0 THEN y
  ELSE IF y = 0 THEN x
  ELSE (IF x % 2 = 1 \/ y % 2 = 1 THEN 1 ELSE 0) + 2 * PqBitOr(x \div 2, y \div 2)

\* valuePacked = blobPtr | (len << 20): both operators work on 32-bit words,
\* so len << 20 keeps the low 12 bits of len, the bits of blobPtr from bit 20
\* up are or-ed into them, and the result is read as a signed word
PqPack(ptr, len) ==
  LET hi == PqBitOr((ptr \div LenShift) % LenModulus, len % LenModulus)
      lo == ptr % LenShift
  IN IF hi >= LenModulus \div 2 THEN (hi - LenModulus) * LenShift + lo
     ELSE hi * LenShift + lo

\* _decodeValue(packed) for a string queue: ptr = packed & 0xFFFFF,
\* len = packed >>> 20, then the bytes at ptr
PqDecodeValue(a, packed) ==
  LET ptr == packed % LenShift
      len == IF packed < 0 THEN (packed \div LenShift) + LenModulus
             ELSE packed \div LenShift
  IN [i \in 1..len |-> IF (ptr + i - 1) \in DOMAIN a.blobs THEN a.blobs[ptr + i - 1] ELSE 0]

\* enqueue(value, priority)
PqEnqueueOp(a, q, value, priority) ==
  LET b == PqAllocBlob(a, value)
      r == PqInsert(b.a, q.heapPtr, priority, PqPack(b.ptr, Len(value)), q.isMaxHeap)
      newSize == q.size + 1
      isTop == newSize = 1 \/
                 (q.topPriority # <<>> /\
                   (IF q.isMaxHeap THEN priority > q.topPriority[1]
                    ELSE priority < q.topPriority[1]))
  IN [a |-> r.a,
      q |-> [heapPtr |-> r.ptr, size |-> newSize, isMaxHeap |-> q.isMaxHeap,
             topValue |-> IF isTop THEN <<value>> ELSE q.topValue,
             topPriority |-> IF isTop THEN <<priority>> ELSE q.topPriority,
             live |-> Append(q.live, [priority |-> priority, value |-> value])]]

\* history kept with a queue object: the elements enqueued on it, or on the
\* queues it was derived from, and not yet taken out by a dequeue, in the
\* order of their enqueue; PqWithout takes out the first occurrence of e
PqWithout(live, e) ==
  IF \E i \in 1..Len(live) : live[i] = e
  THEN LET i == CHOOSE j \in 1..Len(live) : live[j] = e /\ \A k \in 1..(j - 1) : live[k] # e
       IN SubSeq(live, 1, i - 1) \o SubSeq(live, i + 1, Len(live))
  ELSE live

\* dequeue() on a queue whose size is not 0; the element taken out is the
\* entry at the top of the heap before extract
PqDequeueOp(a, q) ==
  LET a1 == PqExtract(a, q.heapPtr, q.isMaxHeap)
      newSize == q.size - 1
  IN [a |-> a1,
      q |-> [heapPtr |-> q.heapPtr, size |-> newSize, isMaxHeap |-> q.isMaxHeap,
             topValue |-> IF newSize > 0
                          THEN <<PqDecodeValue(a1, PqPeekValue(a1, q.heapPtr))>> ELSE <<>>,
             topPriority |-> IF newSize > 0
                             THEN <<PqPeekPriority(a1, q.heapPtr)>> ELSE <<>>,
             live |-> PqWithout(q.live,
                                [priority |-> PqPeekPriority(a, q.heapPtr),
                                 value |-> PqDecodeValue(a, PqPeekValue(a, q.heapPtr))])]]

\* the values obtained by peek() and dequeue() on q until it is empty
RECURSIVE PqDrain(_, _)
PqDrain(a, q) ==
  IF q.size = 0 THEN <<>>
  ELSE LET r == PqDequeueOp(a, q) IN <<q.topValue>> \o PqDrain(r.a, r.q)

notPq == <<mapVars, workerVars, dllVars, sllVars, omVars, rbVars, moreVars>>

PqCommit(a) ==
  /\ pqHeaps' = a.heaps
  /\ pqBlobs' = a.blobs
  /\ pqHeapEnd' = a.heapEnd

\* the caller keeps the queue returned by operation op on queue h
PqReturn(op, h, q) ==
  LET id == CHOOSE i \in PqIds \ DOMAIN pqQueues : \A j \in PqIds \ DOMAIN pqQueues : i <= j
  IN /\ pqQueues' = [x \in (DOMAIN pqQueues) \cup {id} |-> IF x = id THEN q ELSE pqQueues[x]]
     /\ last' = [op |-> op, h |-> h, r |-> id]

\* new SharedPriorityQueue('string', {maxHeap})
PqNew(maxHeap) ==
  /\ DOMAIN pqQueues # PqIds
  /\ Cardinality(DOMAIN pqHeaps) < MaxPqHeaps
  /\ LET r == PqCreateHeap(PqSt, PqInitialCapacity)
     IN /\ PqCommit(r.a)
        /\ PqReturn("pq.new", 0, [heapPtr |-> r.ptr, size |-> 0, isMaxHeap |-> maxHeap,
                                  topValue |-> <<>>, topPriority |-> <<>>, live |-> <<>>])
  /\ UNCHANGED notPq

\* q2 = q.enqueue(v, p)
PqEnqueue(h, v, p) ==
  /\ h \in DOMAIN pqQueues /\ DOMAIN pqQueues # PqIds
  /\ Cardinality(DOMAIN pqBlobs) < MaxPqBlobs
  /\ LET r == PqEnqueueOp(PqSt, pqQueues[h], v, p)
     IN PqCommit(r.a) /\ PqReturn("pq.enqueue", h, r.q)
  /\ UNCHANGED notPq

\* q2 = q.dequeue(); on a queue of size 0 dequeue returns this
PqDequeue(h) ==
  /\ h \in DOMAIN pqQueues
  /\ IF pqQueues[h].size = 0
     THEN /\ last' = [op |-> "pq.dequeue", h |-> h, r |-> h]
          /\ UNCHANGED pqVars
     ELSE /\ DOMAIN pqQueues # PqIds
          /\ LET r == PqDequeueOp(PqSt, pqQueues[h])
             IN PqCommit(r.a) /\ PqReturn("pq.dequeue", h, r.q)
  /\ UNCHANGED notPq

\* the caller lets go of a queue object; nothing is released in the arena
PqDrop(h) ==
  /\ h \in DOMAIN pqQueues
  /\ pqQueues' = [x \in (DOMAIN pqQueues) \ {h} |-> pqQueues[x]]
  /\ last' = [op |-> "pq.drop", h |-> 0]
  /\ UNCHANGED <<pqHeaps, pqBlobs, pqHeapEnd, notPq>>

NextPq ==
  \/ \E maxHeap \in BOOLEAN : PqNew(maxHeap)
  \/ \E h \in PqIds, v \in PqVals, p \in Priorities : PqEnqueue(h, v, p)
  \/ \E h \in PqIds : PqDequeue(h)
  \/ \E h \in PqIds : PqDrop(h)

SpecPq == Init /\ [][NextPq]_vars

\* ------------------------------------------------------------------------
\* Long values (SpecPqLong): one queue used linearly, with values of one
\* byte and a value one byte longer than a packed word can tell
\* ------------------------------------------------------------------------
PackedLenLimit == LenModulus - 1

PqLongValue == [i \in 1..(PackedLenLimit + 1) |-> 97]

NextPqLong ==
  \/ \E maxHeap \in BOOLEAN : DOMAIN pqQueues = {} /\ PqNew(maxHeap)
  \/ \E h \in PqIds, v \in PqVals \cup {PqLongValue}, p \in Priorities :
       DOMAIN pqQueues = {h} /\ PqEnqueue(h, v, p)
  \/ \E h \in PqIds : DOMAIN pqQueues = {h} /\ PqDequeue(h)
  \/ \E h \in PqIds : /\ last.op \in {"pq.enqueue", "pq.dequeue"}
                      /\ h = last.h /\ h # last.r
                      /\ PqDrop(h)

SpecPqLong == Init /\ [][NextPqLong]_vars

\* the packed words stored in the heap at heapPtr
PqStoredWords(heapPtr) ==
  {pqHeaps[heapPtr].entries[i].value : i \in 1..Len(pqHeaps[heapPtr].entries)}

\* the bytes at ptr .. ptr + len - 1 were all written by allocBlob
PqBlobWritten(packed) ==
  \A i \in 1..Len(PqDecodeValue(PqSt, packed)) :
    ((packed % LenShift) + i - 1) \in DOMAIN pqBlobs

\* C26: a value longer than 4095 bytes is never stored (the call fails),
\* and every packed word stored in a heap decodes to the address and length
\* of a blob that was written, that is to the bytes of an enqueued value.
C26_PackedWordsFaithful ==
  /\ \A h \in DOMAIN pqQueues : \A i \in 1..Len(pqQueues[h].live) :
       Len(pqQueues[h].live[i].value) <= PackedLenLimit
  /\ \A heapPtr \in DOMAIN pqHeaps : \A w \in PqStoredWords(heapPtr) :
       /\ PqBlobWritten(w)
       /\ PqDecodeValue(PqSt, w) \in PqVals \cup {PqLongValue}

\* calls applied one after another from an empty queue: each call is made on
\* the only queue object held, and the object it was made on is then let go
\* (dequeue on an empty queue returns the object itself, which is kept)
NextPqLinear ==
  \/ \E maxHeap \in BOOLEAN : DOMAIN pqQueues = {} /\ PqNew(maxHeap)
  \/ \E h \in PqIds, v \in PqVals, p \in Priorities : DOMAIN pqQueues = {h} /\ PqEnqueue(h, v, p)
  \/ \E h \in PqIds : DOMAIN pqQueues = {h} /\ PqDequeue(h)
  \/ \E h \in PqIds : /\ last.op \in {"pq.enqueue", "pq.dequeue"}
                      /\ h = last.h /\ h # last.r
                      /\ PqDrop(h)

SpecPqLinear == Init /\ [][NextPqLinear]_vars

\* the priorities of the elements of live, and the best of them
PqLivePriorities(q) == {q.live[i].priority : i \in 1..Len(q.live)}
PqBestLive(q) ==
  CHOOSE p \in PqLivePriorities(q) :
    \A x \in PqLivePriorities(q) : IF q.isMaxHeap THEN x <= p ELSE x >= p

NumHiWords == {0, 1073217536}
NumLoWords == {0, 1}
PqNumbers == [hi : NumHiWords, lo : NumLoWords]

\* enqueue, 'number': new Uint32Array(new Float64Array([value]).buffer)[0]
PqPackNumber(value) == value.lo

\* _decodeValue, 'number': new Float64Array(new Uint32Array([packed, 0]).buffer)[0]
PqDecodeNumber(packed) == [hi |-> 0, lo |-> packed]

\* enqueue(value, priority) on a queue of numbers
PqEnqueueNumOp(a, q, value, priority) ==
  LET r == PqInsert(a, q.heapPtr, priority, PqPackNumber(value), q.isMaxHeap)
      newSize == q.size + 1
      isTop == newSize = 1 \/
                 (q.topPriority # <<>> /\
                   (IF q.isMaxHeap THEN priority > q.topPriority[1]
                    ELSE priority < q.topPriority[1]))
  IN [a |-> r.a,
      q |-> [heapPtr |-> r.ptr, size |-> newSize, isMaxHeap |-> q.isMaxHeap,
             topValue |-> IF isTop THEN <<value>> ELSE q.topValue,
             topPriority |-> IF isTop THEN <<priority>> ELSE q.topPriority,
             live |-> Append(q.live, [priority |-> priority, value |-> value])]]

\* dequeue() on a queue of numbers whose size is not 0; the element taken
\* out is the one enqueued with the priority at the top of the heap
PqDequeueNumOp(a, q) ==
  LET a1 == PqExtract(a, q.heapPtr, q.isMaxHeap)
      newSize == q.size - 1
  IN [a |-> a1,
      q |-> [heapPtr |-> q.heapPtr, size |-> newSize, isMaxHeap |-> q.isMaxHeap,
             topValue |-> IF newSize > 0
                          THEN <<PqDecodeNumber(PqPeekValue(a1, q.heapPtr))>> ELSE <<>>,
             topPriority |-> IF newSize > 0
                             THEN <<PqPeekPriority(a1, q.heapPtr)>> ELSE <<>>,
             live |-> SelectSeq(q.live,
                        LAMBDA e : e.priority # PqPeekPriority(a, q.heapPtr))]]

\* SharedPriorityQueue.fromWorkerData(data) for data = q.toWorkerData()
PqNumFromWorkerDataOp(a, q) ==
  IF q.size = 0
  THEN [heapPtr |-> q.heapPtr, size |-> 0, isMaxHeap |-> q.isMaxHeap,
        topValue |-> <<>>, topPriority |-> <<>>, live |-> q.live]
  ELSE [heapPtr |-> q.heapPtr, size |-> q.size, isMaxHeap |-> q.isMaxHeap,
        topValue |-> <<PqDecodeNumber(PqPeekValue(a, q.heapPtr))>>,
        topPriority |-> <<PqPeekPriority(a, q.heapPtr)>>, live |-> q.live]

\* q2 = q.enqueue(v, p), with a priority that no element of q has
PqNumEnqueue(h, v, p) ==
  /\ h \in DOMAIN pqQueues /\ DOMAIN pqQueues # PqIds
  /\ \A i \in 1..Len(pqQueues[h].live) : pqQueues[h].live[i].priority # p
  /\ LET r == PqEnqueueNumOp(PqSt, pqQueues[h], v, p)
     IN PqCommit(r.a) /\ PqReturn("pqn.enqueue", h, r.q)
  /\ UNCHANGED notPq

\* q2 = q.dequeue()
PqNumDequeue(h) ==
  /\ h \in DOMAIN pqQueues
  /\ IF pqQueues[h].size = 0
     THEN /\ last' = [op |-> "pqn.dequeue", h |-> h, r |-> h]
          /\ UNCHANGED pqVars
     ELSE /\ DOMAIN pqQueues # PqIds
          /\ LET r == PqDequeueNumOp(PqSt, pqQueues[h])
             IN PqCommit(r.a) /\ PqReturn("pqn.dequeue", h, r.q)
  /\ UNCHANGED notPq

\* q2 = SharedPriorityQueue.fromWorkerData(q.toWorkerData())
PqNumFromWorkerData(h) ==
  /\ h \in DOMAIN pqQueues /\ DOMAIN pqQueues # PqIds
  /\ PqReturn("pqn.fromWorkerData", h, PqNumFromWorkerDataOp(PqSt, pqQueues[h]))
  /\ UNCHANGED <<pqHeaps, pqBlobs, pqHeapEnd, notPq>>

\* calls applied one after another from an empty queue of numbers
NextPqNum ==
  \/ \E maxHeap \in BOOLEAN : DOMAIN pqQueues = {} /\ PqNew(maxHeap)
  \/ \E h \in PqIds, v \in PqNumbers, p \in Priorities :
       DOMAIN pqQueues = {h} /\ PqNumEnqueue(h, v, p)
  \/ \E h \in PqIds : DOMAIN pqQueues = {h} /\ PqNumDequeue(h)
  \/ \E h \in PqIds : DOMAIN pqQueues = {h} /\ PqNumFromWorkerData(h)
  \/ \E h \in PqIds : /\ last.op \in {"pqn.enqueue", "pqn.dequeue", "pqn.fromWorkerData"}
                      /\ h = last.h /\ h # last.r
                      /\ PqDrop(h)

SpecPqNum == Init /\ [][NextPqNum]_vars

\* C36: peek() of a queue of numbers is exactly the number enqueued for
\* the top element, also when it was re-read from the arena by dequeue()
\* or by fromWorkerData().
C36_PqNumberPeekExact ==
  (last.op \in {"pqn.enqueue", "pqn.dequeue", "pqn.fromWorkerData"}) =>
    LET q == pqQueues[last.r]
    IN q.live # <<>> =>
         \E i \in 1..Len(q.live) :
           /\ q.live[i].priority = PqBestLive(q)
           /\ q.topValue = <<q.live[i].value>>

\* ------------------------------------------------------------------------
\* The binary heap wasm called directly: createHeap with a small capacity,
\* then insert and extract on the region that the last call returned.  The
\* caller's region pointer, entry count and direction are kept in
\* pqQueues[1].
\* ------------------------------------------------------------------------
GrowWords == 1..2

\* heap = createHeap(cap)
PqGrowCreate(cap, maxHeap) ==
  /\ pqQueues = <<>> /\ pqHeaps = <<>>
  /\ LET r == PqCreateHeap(PqSt, cap)
     IN /\ PqCommit(r.a)
        /\ pqQueues' = <<[heapPtr |-> r.ptr, size |-> 0, isMaxHeap |-> maxHeap,
                          topValue |-> <<>>, topPriority |-> <<>>, live |-> <<>>]>>
        /\ last' = [op |-> "heap.createHeap", h |-> 0, r |-> r.ptr]
  /\ UNCHANGED notPq

\* heap = insert(heap, priority, valuePacked, isMaxHeap)
PqGrowInsert(priority, valuePacked) ==
  /\ DOMAIN pqQueues = {1} /\ pqQueues[1].size < MaxGrowSize
  /\ LET q == pqQueues[1]
         r == PqInsert(PqSt, q.heapPtr, priority, valuePacked, q.isMaxHeap)
     IN /\ PqCommit(r.a)
        /\ pqQueues' = [pqQueues EXCEPT ![1].heapPtr = r.ptr, ![1].size = @ + 1,
                          ![1].live = Append(@, [priority |-> priority, value |-> valuePacked])]
        /\ last' = [op |-> "heap.insert", h |-> q.heapPtr, r |-> r.ptr]
  /\ UNCHANGED notPq

\* extract(heap, isMaxHeap)
PqGrowExtract ==
  /\ DOMAIN pqQueues = {1} /\ pqQueues[1].size > 0
  /\ LET q == pqQueues[1]
     IN /\ PqCommit(PqExtract(PqSt, q.heapPtr, q.isMaxHeap))
        /\ pqQueues' = [pqQueues EXCEPT ![1].size = @ - 1,
                          ![1].live = PqWithout(@, pqHeaps[q.heapPtr].entries[1])]
        /\ last' = [op |-> "heap.extract", h |-> q.heapPtr, r |-> q.heapPtr]
  /\ UNCHANGED notPq

NextPqGrow ==
  \/ \E cap \in 1..MaxGrowCap, maxHeap \in BOOLEAN : PqGrowCreate(cap, maxHeap)
  \/ \E p \in Priorities, w \in GrowWords : PqGrowInsert(p, w)
  \/ PqGrowExtract

SpecPqGrow == Init /\ [][NextPqGrow]_vars

\* the entries of a sequence with their multiplicities
PqEntryBag(es) ==
  [e \in {es[i] : i \in 1..Len(es)} |-> Cardinality({i \in 1..Len(es) : es[i] = e})]

\* no entry goes above its parent
PqHeapOrdered(es, isMaxHeap) ==
  \A i \in 2..Len(es) : ~PqBetter(es[i], es[i \div 2], isMaxHeap)

\* C35: insert on a region whose size equals its capacity returns a new
\* region of twice the capacity that holds the old entries and the new one
\* in heap order, and leaves the old region as it was.
C35_PqInsertDoubles ==
  [][(/\ last'.op = "heap.insert"
      /\ Len(pqHeaps[pqQueues[1].heapPtr].entries) = pqHeaps[pqQueues[1].heapPtr].cap) =>
       LET old == pqQueues[1].heapPtr
           new == pqQueues'[1].heapPtr
       IN /\ new # old /\ new \notin DOMAIN pqHeaps
          /\ pqHeaps'[new].cap = 2 * pqHeaps[old].cap
          /\ Len(pqHeaps'[new].entries) = Len(pqHeaps[old].entries) + 1
          /\ PqEntryBag(pqHeaps'[new].entries) = PqEntryBag(pqQueues'[1].live)
          /\ PqEntryBag(pqHeaps[old].entries) = PqEntryBag(pqQueues[1].live)
          /\ PqHeapOrdered(pqHeaps'[new].entries, pqQueues[1].isMaxHeap)
          /\ pqHeaps'[old] = pqHeaps[old]]_vars

\* a full region of capacity 2 has just been left for one of capacity 4,
\* and the entry inserted had to rise to the top
C35_Witness ==
  /\ last.op = "heap.insert" /\ last.r # last.h
  /\ pqHeaps[last.h].cap = 2 /\ pqHeaps[last.r].cap = 4
  /\ Len(pqHeaps[last.r].entries) = 3
  /\ pqHeaps[last.r].entries[1] = pqQueues[1].live[3]
  /\ pqHeaps[last.r].entries[1].priority # pqHeaps[last.h].entries[1].priority

\* C4: q2 = q.enqueue(v, p) and q2 = q.dequeue() leave q.peek(),
\* q.peekPriority(), q.size and the sequence of values obtained by
\* dequeuing q until it is empty unchanged.
C4_PqOriginalUnchanged ==
  [][last'.op \in {"pq.enqueue", "pq.dequeue"} =>
       /\ pqQueues'[last'.h] = pqQueues[last'.h]
       /\ PqDrain([heaps |-> pqHeaps', blobs |-> pqBlobs', heapEnd |-> pqHeapEnd'],
                  pqQueues[last'.h])
            = PqDrain(PqSt, pqQueues[last'.h])]_vars

\* ------------------------------------------------------------------------
\* SharedOrderedMap: a HAMT over a doubly linked list of entries.
\* A u32 that may exceed 2^31 is kept as its two 16-bit halves [hi, lo]; a
\* bitmap is kept as the set of its set bits.  Keys and values are strings,
\* given as byte sequences.
\* ------------------------------------------------------------------------
\* "const v = ...;" followed by the statements F that use v
Bind(v, F(_)) == F(v)

OmIds == 1..MaxOmHandles
OmKeys == {<<97>>, <<98>>}
OmVals == {<<120>>, <<121>>}
\* "liquid" and "costarring": two keys whose FNV-1a hashes are both 0x5E4DAA9D
OmCollidingKeys == {<<108, 105, 113, 117, 105, 100>>,
                    <<99, 111, 115, 116, 97, 114, 114, 105, 110, 103>>}
OmAllKeys == OmKeys \cup OmCollidingKeys

RECURSIVE Xor(_, _, _)
Xor(x, y, bits) ==
  IF bits = 0 THEN 0
  ELSE (((x % 2) + (y % 2)) % 2) + (2 * Xor(x \div 2, y \div 2, bits - 1))

\* h = (h ^ byte) * 16777619, in 32 bits
FnvStep(h, byte) ==
  LET lo == ((h.lo \div 256) * 256) + Xor(h.lo % 256, byte, 8)
      t  == lo * FnvPrimeLo
  IN [lo |-> t % 65536,
      hi |-> ((h.hi * FnvPrimeLo) + (lo * FnvPrimeHi) + (t \div 65536)) % 65536]

\* hash(len) over the key in KEY_BUF
RECURSIVE FnvFrom(_, _, _)
FnvFrom(h, key, i) ==
  IF i > Len(key) THEN h ELSE FnvFrom(FnvStep(h, key[i]), key, i + 1)

hash(key) == FnvFrom([hi |-> FnvOffsetHi, lo |-> FnvOffsetLo], key, 1)

RECURSIVE Pow2(_)
Pow2(n) == IF n = 0 THEN 1 ELSE 2 * Pow2(n - 1)

HashBit(h, n) ==
  IF n < 16 THEN (h.lo \div Pow2(n)) % 2
  ELSE IF n < 32 THEN (h.hi \div Pow2(n - 16)) % 2
  ELSE 0

\* (keyHash >> shift) & MASK; a wasm shift count is taken modulo 32
HashIndex(h, shift) ==
  LET sh == shift % 32
  IN HashBit(h, sh) + (2 * HashBit(h, sh + 1)) + (4 * HashBit(h, sh + 2))
       + (8 * HashBit(h, sh + 3)) + (16 * HashBit(h, sh + 4))

OmSt == [mem |-> omMem, heapEnd |-> omHeapEnd]

OmStore(a, ptr, cell) ==
  [a EXCEPT !.mem = [x \in (DOMAIN a.mem) \cup {ptr} |-> IF x = ptr THEN cell ELSE a.mem[x]]]

\* alloc(size): bump allocation, 8-byte aligned
OmAlloc(a, size) ==
  [ptr |-> a.heapEnd, a |-> [a EXCEPT !.heapEnd = @ + ((size + 7) \div 8) * 8]]

\* createListNode(keyHash, keyLen, valLen), with the memory.copy of the
\* value that follows it in set()
createListNode(a, keyHash, key, val) ==
  LET r == OmAlloc(a, ListNodeHeader + Len(key) + Len(val))
  IN [ptr |-> r.ptr,
      a   |-> OmStore(r.a, r.ptr, [kind |-> "list", prev |-> 0, next |-> 0,
                                   keyHash |-> keyHash, key |-> key, val |-> val])]

\* allocHamtNode(bm, cnt) and the stores of its children
allocHamtNode(a, bm, kids) ==
  LET r == OmAlloc(a, 4 + 4 * Len(kids))
  IN [ptr |-> r.ptr, a |-> OmStore(r.a, r.ptr, [kind |-> "node", bm |-> bm, kids |-> kids])]

\* allocHamtLeaf(listNode)
allocHamtLeaf(a, listNode) ==
  LET r == OmAlloc(a, 8)
  IN [ptr |-> r.ptr, a |-> OmStore(r.a, r.ptr, [kind |-> "leaf", listNode |-> listNode])]

\* isLeaf(ptr): the first word is 0
isLeaf(a, ptr) ==
  a.mem[ptr].kind = "leaf" \/ (a.mem[ptr].kind = "node" /\ a.mem[ptr].bm = {})

\* getLeafListNode(ptr): the second word
getLeafListNode(a, ptr) ==
  IF a.mem[ptr].kind = "leaf" THEN a.mem[ptr].listNode ELSE a.mem[ptr].kids[1]

\* pc(bm & (bit - 1)) for bit = 1 << i
OmPos(bm, i) == Cardinality({j \in bm : j < i})

\* the children of a node in slot order
OmKid(a, node, j) == a.mem[node].kids[j + 1]

\* a u32 below 2^31 as its two halves
U32(n) == [hi |-> n \div 65536, lo |-> n % 65536]

\* the 16 bits of a bitmap from bit base on
RECURSIVE BmHalf(_, _, _)
BmHalf(bm, base, j) ==
  IF j = 16 THEN 0
  ELSE (IF (base + j) \in bm THEN Pow2(j) ELSE 0) + BmHalf(bm, base, j + 1)

\* byte o of a list node, o >= 16: the key, then the value, then padding
OmListByte(cell, o) ==
  IF o - 15 <= Len(cell.key) THEN cell.key[o - 15]
  ELSE IF o - 15 - Len(cell.key) <= Len(cell.val) THEN cell.val[o - 15 - Len(cell.key)]
  ELSE 0

\* word w of the bytes an object of the arena occupies
\*   list node: [prev:4][next:4][keyHash:4][keyLen:2][valLen:2][key...][val...]
\*   HAMT node: [bitmap:4][children...]      HAMT leaf: [0:4][listNodePtr:4]
OmWordOf(cell, w) ==
  IF cell.kind = "list"
  THEN IF w = 0 THEN U32(cell.prev)
       ELSE IF w = 1 THEN U32(cell.next)
       ELSE IF w = 2 THEN cell.keyHash
       ELSE IF w = 3 THEN [hi |-> Len(cell.val), lo |-> Len(cell.key)]
       ELSE [hi |-> OmListByte(cell, (4 * w) + 2) + (256 * OmListByte(cell, (4 * w) + 3)),
             lo |-> OmListByte(cell, 4 * w) + (256 * OmListByte(cell, (4 * w) + 1))]
  ELSE IF cell.kind = "node"
  THEN IF w = 0 THEN [hi |-> BmHalf(cell.bm, 16, 0), lo |-> BmHalf(cell.bm, 0, 0)]
       ELSE IF w <= Len(cell.kids) THEN U32(cell.kids[w])
       ELSE U32(0)
  ELSE IF w = 1 THEN U32(cell.listNode) ELSE U32(0)

\* the object whose bytes hold address addr: the one allocated last at or
\* below it (0 when there is none)
OmBase(a, addr) ==
  IF \E x \in DOMAIN a.mem : x <= addr
  THEN CHOOSE x \in DOMAIN a.mem : x <= addr /\ \A y \in DOMAIN a.mem : y <= addr => y <= x
  ELSE 0

\* load<u32>(addr), load<u16>(addr) and load<u8>(addr) on the arena
OmLoadU32(a, addr) ==
  Bind(OmBase(a, addr), LAMBDA x :
    IF x = 0 THEN U32(0) ELSE OmWordOf(a.mem[x], (addr - x) \div 4))

OmLoadU16(a, addr) ==
  Bind(OmLoadU32(a, addr - (addr % 4)), LAMBDA w :
    IF (addr % 4) = 0 THEN w.lo ELSE w.hi)

OmLoadU8(a, addr) ==
  Bind(OmLoadU16(a, addr - (addr % 2)), LAMBDA w :
    IF (addr % 2) = 0 THEN w % 256 ELSE w \div 256)

\* load<u32>(ln + 8) and load<u16>(ln + 12): the keyHash and keyLen fields
\* when ln is a list node, and whatever bytes lie there when it is not
OmHashAt(a, ln) ==
  IF a.mem[ln].kind = "list" THEN a.mem[ln].keyHash ELSE OmLoadU32(a, ln + 8)

OmKeyLenAt(a, ln) ==
  IF a.mem[ln].kind = "list" THEN Len(a.mem[ln].key) ELSE OmLoadU16(a, ln + 12)

\* keycmp(ln + 16, len): memory.compare(KEY_BUF, ln + 16, len) == 0; the
\* bytes are the key of ln when ln is a list node with a key of len bytes
keycmp(a, key, ln, len) ==
  IF a.mem[ln].kind = "list" /\ Len(a.mem[ln].key) = len /\ Len(key) = len
  THEN a.mem[ln].key = key
  ELSE \A i \in 1..len : OmLoadU8(a, ln + 15 + i) = (IF i <= Len(key) THEN key[i] ELSE 0)

\* does the list node ln hold the key in KEY_BUF
OmSameKey(a, ln, keyHash, key) ==
  /\ OmHashAt(a, ln) = keyHash
  /\ OmKeyLenAt(a, ln) = Len(key)
  /\ keycmp(a, key, ln, Len(key))

\* findInternal(node, keyHash, keyLen, shift)
RECURSIVE findInternal(_, _, _, _, _)
findInternal(a, node, keyHash, key, shift) ==
  IF node = 0 THEN 0
  ELSE IF isLeaf(a, node)
  THEN IF OmSameKey(a, getLeafListNode(a, node), keyHash, key)
       THEN getLeafListNode(a, node) ELSE 0
  ELSE LET i == HashIndex(keyHash, shift) IN
       IF i \notin a.mem[node].bm THEN 0
       ELSE findInternal(a, OmKid(a, node, OmPos(a.mem[node].bm, i)), keyHash, key,
                         shift + HamtBits)

\* find(root, keyLen)
find(a, root, key) == findInternal(a, root, hash(key), key, 0)

\* merge(l1, h1, l2, h2, shift)
RECURSIVE merge(_, _, _, _, _, _)
merge(a, l1, h1, l2, h2, shift) ==
  IF shift >= 32 THEN allocHamtNode(a, {}, <<l1, l2>>)
  ELSE LET i1 == HashIndex(h1, shift)
           i2 == HashIndex(h2, shift)
       IN IF i1 = i2
          THEN LET child == merge(a, l1, h1, l2, h2, shift + HamtBits)
               IN allocHamtNode(child.a, {i1}, <<child.ptr>>)
          ELSE allocHamtNode(a, {i1, i2}, IF i1 < i2 THEN <<l1, l2>> ELSE <<l2, l1>>)

\* insertInternal at a leaf: replace the leaf of the same key, else merge
OmInsertAtLeaf(a, node, leaf, keyHash, key, shift, ln, existingHash, existingKeyLen) ==
  IF /\ existingHash = keyHash
     /\ existingKeyLen = OmKeyLenAt(a, getLeafListNode(a, leaf))
     /\ keycmp(a, key, ln, existingKeyLen)
  THEN [ptr |-> leaf, a |-> a]
  ELSE merge(a, node, existingHash, leaf, keyHash, shift)

\* insertInternal(node, leaf, keyHash, shift)
RECURSIVE insertInternal(_, _, _, _, _, _)
insertInternal(a, node, leaf, keyHash, key, shift) ==
  IF node = 0 THEN [ptr |-> leaf, a |-> a]
  ELSE IF isLeaf(a, node)
  THEN OmInsertAtLeaf(a, node, leaf, keyHash, key, shift,
                      getLeafListNode(a, node),
                      OmHashAt(a, getLeafListNode(a, node)),
                      OmKeyLenAt(a, getLeafListNode(a, node)))
  ELSE LET bm  == a.mem[node].bm
           i   == HashIndex(keyHash, shift)
           pos == OmPos(bm, i)
           kids == a.mem[node].kids
       IN IF i \in bm
          THEN LET c == insertInternal(a, kids[pos + 1], leaf, keyHash, key, shift + HamtBits)
               IN allocHamtNode(c.a, bm, [kids EXCEPT ![pos + 1] = c.ptr])
          ELSE allocHamtNode(a, bm \cup {i},
                 SubSeq(kids, 1, pos) \o <<leaf>> \o SubSeq(kids, pos + 1, Len(kids)))

\* setListPrev(n, p) and setListNext(n, next)
setListPrev(a, n, p) == IF n # 0 THEN [a EXCEPT !.mem[n].prev = p] ELSE a
setListNext(a, n, next) == IF n # 0 THEN [a EXCEPT !.mem[n].next = next] ELSE a

\* set(), existing key: the new list node takes the links of the existing
\* one, and its neighbours are pointed at it
OmTakeLinks(a, newNode, prev, next) ==
  setListPrev(setListNext([a EXCEPT !.mem[newNode].prev = prev, !.mem[newNode].next = next],
                          prev, newNode),
              next, newNode)

\* linkToTail(node, tail)
linkToTail(a, node, tail) ==
  IF tail # 0 THEN [a EXCEPT !.mem[tail].next = node, !.mem[node].prev = tail] ELSE a

\* set(): allocHamtLeaf(newNode), insertInternal(root, leaf, keyHash, 0) and
\* the four result words
OmSetResult(a, root, newNode, keyHash, key, newHead, newTail, isNew) ==
  Bind(allocHamtLeaf(a, newNode), LAMBDA leaf :
    Bind(insertInternal(leaf.a, root, leaf.ptr, keyHash, key, 0), LAMBDA r :
      [a |-> r.a, root |-> r.ptr, head |-> newHead, tail |-> newTail, isNew |-> isNew]))

\* set(), after findInternal and createListNode
OmSetNode(root, head, tail, keyHash, key, existing, n) ==
  IF existing # 0
  THEN OmSetResult(OmTakeLinks(n.a, n.ptr, n.a.mem[existing].prev, n.a.mem[existing].next),
                   root, n.ptr, keyHash, key,
                   IF existing = head THEN n.ptr ELSE head,
                   IF existing = tail THEN n.ptr ELSE tail, 0)
  ELSE OmSetResult(linkToTail(n.a, n.ptr, tail), root, n.ptr, keyHash, key,
                   IF head # 0 THEN head ELSE n.ptr, n.ptr, 1)

\* set(root, head, tail, keyLen, valLen): the four result words
OmWasmSet(a, root, head, tail, key, val) ==
  Bind(hash(key), LAMBDA keyHash :
    OmSetNode(root, head, tail, keyHash, key,
              findInternal(a, root, keyHash, key, 0),
              createListNode(a, keyHash, key, val)))

\* deleteInternal(node, keyHash, keyLen, shift)
RECURSIVE deleteInternal(_, _, _, _, _)
deleteInternal(a, node, keyHash, key, shift) ==
  IF node = 0 THEN [ptr |-> 0, a |-> a]
  ELSE IF isLeaf(a, node)
  THEN IF OmSameKey(a, getLeafListNode(a, node), keyHash, key)
       THEN [ptr |-> 0, a |-> a] ELSE [ptr |-> node, a |-> a]
  ELSE LET bm  == a.mem[node].bm
           i   == HashIndex(keyHash, shift)
           pos == OmPos(bm, i)
           kids == a.mem[node].kids
       IN IF i \notin bm THEN [ptr |-> node, a |-> a]
          ELSE LET c == deleteInternal(a, kids[pos + 1], keyHash, key, shift + HamtBits)
               IN IF c.ptr = kids[pos + 1] THEN [ptr |-> node, a |-> c.a]
                  ELSE IF c.ptr = 0
                  THEN IF Len(kids) = 1 THEN [ptr |-> 0, a |-> c.a]
                       ELSE allocHamtNode(c.a, bm \ {i},
                              SubSeq(kids, 1, pos) \o SubSeq(kids, pos + 2, Len(kids)))
                  ELSE allocHamtNode(c.a, bm, [kids EXCEPT ![pos + 1] = c.ptr])

\* del(), key found: unlink the list node, then deleteInternal
OmDelNode(a, root, head, tail, keyHash, key, existing, prev, next) ==
  Bind(deleteInternal(setListPrev(setListNext(a, prev, next), next, prev),
                      root, keyHash, key, 0), LAMBDA r :
    [a |-> r.a, root |-> r.ptr,
     head |-> IF existing = head THEN next ELSE head,
     tail |-> IF existing = tail THEN prev ELSE tail])

\* del(root, head, tail, keyLen): the three result words
OmWasmDel(a, root, head, tail, key) ==
  Bind(hash(key), LAMBDA keyHash :
    Bind(findInternal(a, root, keyHash, key, 0), LAMBDA existing :
      IF existing = 0 THEN [a |-> a, root |-> root, head |-> head, tail |-> tail]
      ELSE OmDelNode(a, root, head, tail, keyHash, key, existing,
                     a.mem[existing].prev, a.mem[existing].next)))

\* get(key): <<value>>, or <<>> for undefined
OmGet(a, m, key) ==
  IF m.root = 0 THEN <<>>
  ELSE LET node == find(a, m.root, key)
       IN IF node = 0 THEN <<>> ELSE <<a.mem[node].val>>

\* has(key)
OmHas(a, m, key) == m.root # 0 /\ find(a, m.root, key) # 0

\* entries(): from head along next until 0, cut after OmFuel nodes
OmFuel == MaxOmEntries + 1

RECURSIVE OmWalk(_, _, _)
OmWalk(a, node, fuel) ==
  IF node = 0 \/ fuel = 0 THEN <<>>
  ELSE <<<<a.mem[node].key, a.mem[node].val>>>> \o OmWalk(a, a.mem[node].next, fuel - 1)

OmEntries(a, m) == OmWalk(a, m.head, OmFuel)

notOm == <<mapVars, workerVars, dllVars, sllVars, pqVars, rbVars, moreVars>>

OmCommit(a) ==
  /\ omMem' = a.mem
  /\ omHeapEnd' = a.heapEnd

\* the caller keeps the map returned by operation op on map h
OmReturn(op, h, m) ==
  LET id == CHOOSE i \in OmIds \ DOMAIN omMaps : \A j \in OmIds \ DOMAIN omMaps : i <= j
  IN /\ omMaps' = [x \in (DOMAIN omMaps) \cup {id} |-> IF x = id THEN m ELSE omMaps[x]]
     /\ last' = [op |-> op, h |-> h]

\* the caller keeps the map that set(key, val) or delete(key) on map h returned
OmReturnOf(op, h, m, key, val) ==
  LET id == CHOOSE i \in OmIds \ DOMAIN omMaps : \A j \in OmIds \ DOMAIN omMaps : i <= j
  IN /\ omMaps' = [x \in (DOMAIN omMaps) \cup {id} |-> IF x = id THEN m ELSE omMaps[x]]
     /\ last' = [op |-> op, h |-> h, r |-> id, key |-> key, val |-> val]

OmListNodes == {x \in DOMAIN omMem : omMem[x].kind = "list"}

\* the arena still has room for the delete calls explored (the set calls
\* are bounded by the number of list nodes)
OmRoom == omHeapEnd - OmHeapStart < MaxOmBytes

\* new SharedOrderedMap('string')
OmNew ==
  /\ DOMAIN omMaps # OmIds
  /\ \A i \in DOMAIN omMaps : omMaps[i].root # 0
  /\ OmReturn("om.new", 0, [root |-> 0, head |-> 0, tail |-> 0, size |-> 0, hist |-> <<>>])
  /\ UNCHANGED <<omMem, omHeapEnd, notOm>>

\* history kept with a map object: the entries set on it, or on the maps
\* it was derived from, and not deleted since, in the order of their first
\* insertion, each with the value set last
HistSet(hist, key, val) ==
  IF \E i \in DOMAIN hist : hist[i][1] = key
  THEN [i \in DOMAIN hist |-> IF hist[i][1] = key THEN <<key, val>> ELSE hist[i]]
  ELSE Append(hist, <<key, val>>)

HistDelete(hist, key) == SelectSeq(hist, LAMBDA e : e[1] # key)

\* the map that set() returns, kept by the caller
OmSetDone(h, m, r, key, val) ==
  /\ OmCommit(r.a)
  /\ OmReturnOf("om.set", h,
       [root |-> r.root, head |-> r.head, tail |-> r.tail,
        size |-> IF r.isNew # 0 THEN m.size + 1 ELSE m.size,
        hist |-> HistSet(m.hist, key, val)], key, val)

\* the map that delete() returns, kept by the caller
OmDeleteDone(h, m, r, key) ==
  /\ OmCommit(r.a)
  /\ OmReturnOf("om.delete", h,
       [root |-> r.root, head |-> r.head, tail |-> r.tail, size |-> m.size - 1,
        hist |-> HistDelete(m.hist, key)],
       key, <<>>)

\* m2 = m.set(key, value)
OmSet(h, key, val) ==
  /\ h \in DOMAIN omMaps /\ DOMAIN omMaps # OmIds
  /\ Cardinality(OmListNodes) < MaxOmEntries
  /\ OmSetDone(h, omMaps[h],
               OmWasmSet(OmSt, omMaps[h].root, omMaps[h].head, omMaps[h].tail, key, val),
               key, val)
  /\ UNCHANGED notOm

\* m2 = m.delete(key) for a key that m has; otherwise delete returns m
OmDelete(h, key) ==
  /\ h \in DOMAIN omMaps /\ DOMAIN omMaps # OmIds
  /\ omMaps[h].root # 0 /\ OmRoom
  /\ find(OmSt, omMaps[h].root, key) # 0
  /\ OmDeleteDone(h, omMaps[h],
                  OmWasmDel(OmSt, omMaps[h].root, omMaps[h].head, omMaps[h].tail, key), key)
  /\ UNCHANGED notOm

\* the caller lets go of a map object; nothing is released in the arena
OmDrop(h) ==
  /\ h \in DOMAIN omMaps
  /\ omMaps' = [x \in (DOMAIN omMaps) \ {h} |-> omMaps[x]]
  /\ last' = [op |-> "om.drop", h |-> 0]
  /\ UNCHANGED <<omMem, omHeapEnd, notOm>>

NextOm ==
  \/ OmNew
  \/ \E h \in OmIds, k \in OmKeys, v \in OmVals : OmSet(h, k, v)
  \/ \E h \in OmIds, k \in OmKeys : OmDelete(h, k)
  \/ \E h \in OmIds : OmDrop(h)

SpecOm == Init /\ [][NextOm]_vars

\* calls applied one after another from an empty map: each call is made on
\* the only map object held, and the object it was made on is then let go
NextOmLinear ==
  \/ omMaps = <<>> /\ OmNew
  \/ \E h \in OmIds, k \in OmAllKeys, v \in OmVals : DOMAIN omMaps = {h} /\ OmSet(h, k, v)
  \/ \E h \in OmIds, k \in OmAllKeys : DOMAIN omMaps = {h} /\ OmDelete(h, k)
  \/ \E h \in OmIds : /\ last.op \in {"om.set", "om.delete"}
                      /\ h = last.h
                      /\ OmDrop(h)

SpecOmLinear == Init /\ [][NextOmLinear]_vars

\* C19: after set and delete calls applied one after another from an empty
\* SharedOrderedMap, entries() of the map returned last yields the present
\* keys in the order of their insertion, each with the value set last; a
\* set on a present key keeps its place.
C19_OmInsertionOrder ==
  (last.op \in {"om.set", "om.delete"}) =>
    OmEntries(OmSt, omMaps[last.r]) = omMaps[last.r].hist

\* the list nodes that the HAMT under node leads to, read as findInternal
\* reads it: a cell whose first word is 0 is a leaf and its second word
\* the list node; any other cell has one child per bit of its bitmap
OmHamtDepth == 8

RECURSIVE OmHamtListNodes(_, _, _)
OmHamtListNodes(a, node, fuel) ==
  IF node = 0 \/ fuel = 0 THEN {}
  ELSE IF isLeaf(a, node) THEN {getLeafListNode(a, node)}
  ELSE UNION {OmHamtListNodes(a, OmKid(a, node, j), fuel - 1) :
                j \in 0..(Cardinality(a.mem[node].bm) - 1)}

\* the list nodes from node along next until 0, cut after fuel nodes
RECURSIVE OmChain(_, _, _)
OmChain(a, node, fuel) ==
  IF node = 0 \/ fuel = 0 THEN <<>>
  ELSE <<node>> \o OmChain(a, a.mem[node].next, fuel - 1)

OmThreadOk(a, m) ==
  LET chain == OmChain(a, m.head, OmFuel)
  IN /\ OmHamtListNodes(a, m.root, OmHamtDepth) = {chain[i] : i \in 1..Len(chain)}
     /\ Len(chain) <= MaxOmEntries
     /\ m.tail = (IF chain = <<>> THEN 0 ELSE chain[Len(chain)])
     /\ \A i \in 1..Len(chain) :
          a.mem[chain[i]].prev = (IF i = 1 THEN 0 ELSE chain[i - 1])

\* the HAMT cells under node, every stored child followed
RECURSIVE OmHamtCells(_, _, _)
OmHamtCells(a, node, fuel) ==
  IF node = 0 \/ fuel = 0 THEN {}
  ELSE IF a.mem[node].kind = "node"
  THEN {node} \cup UNION {OmHamtCells(a, a.mem[node].kids[j], fuel - 1) :
                            j \in 1..Len(a.mem[node].kids)}
  ELSE {node}

\* a cell whose first word is 0 is [0, listNodePtr]; an internal node has
\* a bitmap other than 0
OmCellOk(a, c) ==
  IF a.mem[c].kind = "node" THEN a.mem[c].bm # {}
  ELSE a.mem[c].kind = "leaf" /\ a.mem[c].listNode \in DOMAIN a.mem
         /\ a.mem[a.mem[c].listNode].kind = "list"

\* C34: after any sequence of set and delete calls, in the HAMT under the
\* root of every map object a cell whose first word is 0 is a leaf
\* [0, listNodePtr] and no internal node has bitmap 0.
C34_OmNoZeroBitmap ==
  \A h \in DOMAIN omMaps :
    \A c \in OmHamtCells(OmSt, omMaps[h].root, OmHamtDepth + 1) : OmCellOk(OmSt, c)

\* C28: in the map returned by a set or delete of a chain of calls from an
\* empty ordered map, the list nodes that the HAMT reaches from root are the
\* nodes on the next-chain from head, the chain ends at tail, and prev
\* mirrors next along it.
C28_OmHamtMatchesThread ==
  (last.op \in {"om.set", "om.delete"} /\ last.r \in DOMAIN omMaps)
    => OmThreadOk(OmSt, omMaps[last.r])

\* the same calls, with keys that collide among the keys used
NextOmHash ==
  \/ OmNew
  \/ \E h \in OmIds, k \in OmAllKeys, v \in OmVals : OmSet(h, k, v)
  \/ \E h \in OmIds, k \in OmAllKeys : OmDelete(h, k)
  \/ \E h \in OmIds : OmDrop(h)

SpecOmHash == Init /\ [][NextOmHash]_vars

\* C17: for m2 = m.set(k, v): m2.get(k) = v and m2.get(k2) = m.get(k2) for
\* every other key k2, keys with the same 32-bit hash as k included; for
\* m2 = m.delete(k): m2.get(k) is undefined.
C17_OmLookupLaws ==
  [][last'.op \in {"om.set", "om.delete"} =>
       LET m  == omMaps[last'.h]
           m2 == omMaps'[last'.r]
           a1 == [mem |-> omMem', heapEnd |-> omHeapEnd']
       IN IF last'.op = "om.set"
          THEN /\ OmGet(a1, m2, last'.key) = <<last'.val>>
               /\ \A k2 \in OmAllKeys \ {last'.key} : OmGet(a1, m2, k2) = OmGet(OmSt, m, k2)
          ELSE OmGet(a1, m2, last'.key) = <<>>]_vars

\* C3: m2 = m.set(k, v) and m2 = m.delete(k) leave the iteration of m (its
\* ordered key-value pairs), m.get and m.has unchanged.
C3_OmOriginalUnchanged ==
  [][last'.op \in {"om.set", "om.delete"} =>
       LET m  == omMaps[last'.h]
           a1 == [mem |-> omMem', heapEnd |-> omHeapEnd']
       IN /\ omMaps'[last'.h] = m
          /\ OmEntries(a1, m) = OmEntries(OmSt, m)
          /\ \A k \in OmKeys : /\ OmGet(a1, m, k) = OmGet(OmSt, m, k)
                               /\ OmHas(a1, m, k) = OmHas(OmSt, m, k)]_vars

\* ------------------------------------------------------------------------
\* SharedSortedMap: a red-black tree in a byte arena.  Words are read and
\* written little-endian at any byte address, as the wasm loads and stores do.
\* ------------------------------------------------------------------------
RbIds == 1..MaxRbHandles
RbKeySet == {<<97>>, <<98>>, <<99>>}
RbValSet == {<<120>>, <<121>>}

RbSt == [mem |-> rbMem, heapEnd |-> rbHeapEnd, freeList |-> rbFreeList]

RbByte(a, p) == IF p \in DOMAIN a.mem THEN a.mem[p] ELSE 0

\* load<u32>(p)
RbLoad(a, p) ==
  RbByte(a, p) + (256 * RbByte(a, p + 1)) + (65536 * RbByte(a, p + 2))
    + (16777216 * RbByte(a, p + 3))

\* store<u32>(p, v)
RbStore(a, p, v) ==
  [a EXCEPT !.mem[p] = v % 256,
            !.mem[p + 1] = (v \div 256) % 256,
            !.mem[p + 2] = (v \div 65536) % 256,
            !.mem[p + 3] = (v \div 16777216) % 256]

\* memory.copy(ptr, buf, len) of the bytes in the buffer
RECURSIVE RbCopyFrom(_, _, _, _)
RbCopyFrom(a, ptr, bytes, i) ==
  IF i > Len(bytes) THEN a
  ELSE RbCopyFrom([a EXCEPT !.mem[ptr + i - 1] = bytes[i]], ptr, bytes, i + 1)

RbCopy(a, ptr, bytes) == RbCopyFrom(a, ptr, bytes, 1)

\* alloc(size)
RbAlloc(a, size) ==
  IF a.freeList # 0 /\ size <= NodeSize
  THEN [ptr |-> a.freeList, a |-> [a EXCEPT !.freeList = RbLoad(a, a.freeList)]]
  ELSE [ptr |-> a.heapEnd, a |-> [a EXCEPT !.heapEnd = @ + size]]

\* freeNode(ptr)
RbFreeNode(a, ptr) == [RbStore(a, ptr, a.freeList) EXCEPT !.freeList = ptr]

\* allocBlob(len) and allocKeyBlob(len)
RbAllocBlob(a, bytes) ==
  LET r == RbAlloc(a, Len(bytes))
  IN [ptr |-> r.ptr, a |-> RbCopy(r.a, r.ptr, bytes)]

getColor(a, n) == IF n # 0 THEN RbLoad(a, n) ELSE BLACK
setColor(a, n, c) == IF n # 0 THEN RbStore(a, n, c) ELSE a
getLeft(a, n) == IF n # 0 THEN RbLoad(a, n + 4) ELSE 0
setLeft(a, n, l) == IF n # 0 THEN RbStore(a, n + 4, l) ELSE a
getRight(a, n) == IF n # 0 THEN RbLoad(a, n + 8) ELSE 0
setRight(a, n, r) == IF n # 0 THEN RbStore(a, n + 8, r) ELSE a
getParent(a, n) == IF n # 0 THEN RbLoad(a, n + 12) ELSE 0
setParent(a, n, q) == IF n # 0 THEN RbStore(a, n + 12, q) ELSE a
getKeyPacked(a, n) == IF n # 0 THEN RbLoad(a, n + 16) ELSE 0
getValPacked(a, n) == IF n # 0 THEN RbLoad(a, n + 20) ELSE 0
setValPacked(a, n, v) == RbStore(a, n + 20, v)

\* createNode(keyPacked, valPacked)
createNode(a, keyPacked, valPacked) ==
  LET r  == RbAlloc(a, NodeSize)
      a1 == RbStore(r.a, r.ptr, RED)
      a2 == RbStore(a1, r.ptr + 4, 0)
      a3 == RbStore(a2, r.ptr + 8, 0)
      a4 == RbStore(a3, r.ptr + 12, 0)
      a5 == RbStore(a4, r.ptr + 16, keyPacked)
  IN [ptr |-> r.ptr, a |-> RbStore(a5, r.ptr + 20, valPacked)]

\* memory.compare(KEY_BUF, ptr2, minLen)
RECURSIVE RbMemCompare(_, _, _, _, _)
RbMemCompare(a, key, ptr2, i, minLen) ==
  IF i > minLen THEN 0
  ELSE IF key[i] < RbByte(a, ptr2 + i - 1) THEN -1
  ELSE IF key[i] > RbByte(a, ptr2 + i - 1) THEN 1
  ELSE RbMemCompare(a, key, ptr2, i + 1, minLen)

\* compareKeyBlob(len1, ptr2, len2), the key being the one in KEY_BUF
compareKeyBlob(a, key, ptr2, len2) ==
  LET len1   == Len(key)
      minLen == IF len1 < len2 THEN len1 ELSE len2
      cmp    == RbMemCompare(a, key, ptr2, 1, minLen)
  IN IF cmp # 0 THEN cmp
     ELSE IF len1 < len2 THEN -1
     ELSE IF len1 > len2 THEN 1
     ELSE 0

\* compareKeyBlob against the key of node curr
RbCompareNode(a, key, curr) ==
  compareKeyBlob(a, key, getKeyPacked(a, curr) % LenShift, getKeyPacked(a, curr) \div LenShift)


\* rotateLeft(root, n): the memory and the root returned
rotateLeft(a, root, n) ==
  LET r == getRight(a, n) IN
  Bind(setRight(a, n, getLeft(a, r)), LAMBDA a1 :
  Bind(IF getLeft(a1, r) # 0 THEN setParent(a1, getLeft(a1, r), n) ELSE a1, LAMBDA a2 :
  Bind(setParent(a2, r, getParent(a2, n)), LAMBDA a3 :
  Bind(getParent(a3, n), LAMBDA q :
  Bind(IF q = 0 THEN a3
       ELSE IF n = getLeft(a3, q) THEN setLeft(a3, q, r)
       ELSE setRight(a3, q, r), LAMBDA a4 :
  [a |-> setParent(setLeft(a4, r, n), n, r), root |-> IF q = 0 THEN r ELSE root])))))

\* rotateRight(root, n)
rotateRight(a, root, n) ==
  LET l == getLeft(a, n) IN
  Bind(setLeft(a, n, getRight(a, l)), LAMBDA a1 :
  Bind(IF getRight(a1, l) # 0 THEN setParent(a1, getRight(a1, l), n) ELSE a1, LAMBDA a2 :
  Bind(setParent(a2, l, getParent(a2, n)), LAMBDA a3 :
  Bind(getParent(a3, n), LAMBDA q :
  Bind(IF q = 0 THEN a3
       ELSE IF n = getRight(a3, q) THEN setRight(a3, q, l)
       ELSE setLeft(a3, q, l), LAMBDA a4 :
  [a |-> setParent(setRight(a4, l, n), n, l), root |-> IF q = 0 THEN l ELSE root])))))

\* the longest loop of a call that returns: one turn per node of the arena
RbFuel == (MaxRbBytes \div NodeSize) + 3

\* fixInsert, parent a left child, uncle black: rotate and recolour
RbInsertLeftCase(a, root, n, q) ==
  Bind(IF n = getRight(a, q) THEN rotateLeft(a, root, q) ELSE [a |-> a, root |-> root], LAMBDA r1 :
  Bind(IF n = getRight(a, q) THEN q ELSE n, LAMBDA n1 :
  Bind(setColor(r1.a, getParent(r1.a, n1), BLACK), LAMBDA a2 :
  Bind(setColor(a2, getParent(a2, getParent(a2, n1)), RED), LAMBDA a3 :
  Bind(rotateRight(a3, r1.root, getParent(a3, getParent(a3, n1))), LAMBDA r2 :
  [a |-> r2.a, root |-> r2.root, n |-> n1])))))

\* fixInsert, parent a right child, uncle black: rotate and recolour
RbInsertRightCase(a, root, n, q) ==
  Bind(IF n = getLeft(a, q) THEN rotateRight(a, root, q) ELSE [a |-> a, root |-> root], LAMBDA r1 :
  Bind(IF n = getLeft(a, q) THEN q ELSE n, LAMBDA n1 :
  Bind(setColor(r1.a, getParent(r1.a, n1), BLACK), LAMBDA a2 :
  Bind(setColor(a2, getParent(a2, getParent(a2, n1)), RED), LAMBDA a3 :
  Bind(rotateLeft(a3, r1.root, getParent(a3, getParent(a3, n1))), LAMBDA r2 :
  [a |-> r2.a, root |-> r2.root, n |-> n1])))))

\* fixInsert: one turn of the loop
RbInsertTurn(a, root, n) ==
  LET q == getParent(a, n)
      g == getParent(a, q)
      u == IF q = getLeft(a, g) THEN getRight(a, g) ELSE getLeft(a, g)
  IN IF getColor(a, u) = RED
     THEN [a |-> setColor(setColor(setColor(a, q, BLACK), u, BLACK), g, RED),
           root |-> root, n |-> g]
     ELSE IF q = getLeft(a, g) THEN RbInsertLeftCase(a, root, n, q)
     ELSE RbInsertRightCase(a, root, n, q)

\* fixInsert(root, n); ok is FALSE when the loop does not end
RECURSIVE fixInsert(_, _, _, _)
fixInsert(a, root, n, fuel) ==
  IF n # root /\ getColor(a, getParent(a, n)) = RED
  THEN IF fuel = 0 THEN [a |-> a, root |-> root, ok |-> FALSE]
       ELSE Bind(RbInsertTurn(a, root, n), LAMBDA t : fixInsert(t.a, t.root, t.n, fuel - 1))
  ELSE [a |-> setColor(a, root, BLACK), root |-> root, ok |-> TRUE]

\* the search loop of insertBlob: where it stops
RECURSIVE RbDescend(_, _, _, _, _, _)
RbDescend(a, key, curr, parent, cmp, fuel) ==
  IF curr = 0 THEN [found |-> 0, parent |-> parent, cmp |-> cmp, ok |-> TRUE]
  ELSE IF fuel = 0 THEN [found |-> 0, parent |-> parent, cmp |-> cmp, ok |-> FALSE]
  ELSE LET c == RbCompareNode(a, key, curr)
       IN IF c = 0 THEN [found |-> curr, parent |-> curr, cmp |-> 0, ok |-> TRUE]
          ELSE RbDescend(a, key, IF c < 0 THEN getLeft(a, curr) ELSE getRight(a, curr),
                         curr, c, fuel - 1)

\* insertBlob after the search loop found no node with the key
RbInsertNew(a, root, key, valPacked, d) ==
  Bind(RbAllocBlob(a, key), LAMBDA kb :
  Bind(createNode(kb.a, kb.ptr + (Len(key) * LenShift), valPacked), LAMBDA n :
  Bind(setParent(n.a, n.ptr, d.parent), LAMBDA a1 :
    IF d.parent = 0
    THEN [a |-> setColor(a1, n.ptr, BLACK), root |-> n.ptr, existed |-> 0, ok |-> TRUE]
    ELSE Bind(fixInsert(IF d.cmp < 0 THEN setLeft(a1, d.parent, n.ptr)
                        ELSE setRight(a1, d.parent, n.ptr), root, n.ptr, RbFuel), LAMBDA f :
         [a |-> f.a, root |-> f.root, existed |-> 0, ok |-> f.ok]))))

\* insertBlob(root, keyLen, valPacked): the memory and the words left in
\* BLOB_BUF (new root, existed)
insertBlob(a, root, key, valPacked) ==
  Bind(RbDescend(a, key, root, 0, 0, RbFuel), LAMBDA d :
    IF ~d.ok THEN [a |-> a, root |-> root, existed |-> 0, ok |-> FALSE]
    ELSE IF d.found # 0
    THEN [a |-> setValPacked(a, d.found, valPacked), root |-> root, existed |-> 1, ok |-> TRUE]
    ELSE RbInsertNew(a, root, key, valPacked, d))

\* findBlob(root, keyLen); -1 when the loop does not end
RECURSIVE RbFind(_, _, _, _)
RbFind(a, key, curr, fuel) ==
  IF curr = 0 THEN 0
  ELSE IF fuel = 0 THEN -1
  ELSE LET c == RbCompareNode(a, key, curr)
       IN IF c = 0 THEN curr
          ELSE RbFind(a, key, IF c < 0 THEN getLeft(a, curr) ELSE getRight(a, curr), fuel - 1)

findBlob(a, root, key) == RbFind(a, key, root, RbFuel)

\* getMin(n); -1 when the loop does not end
RECURSIVE RbMin(_, _, _)
RbMin(a, n, fuel) ==
  IF fuel = 0 THEN -1
  ELSE IF getLeft(a, n) # 0 THEN RbMin(a, getLeft(a, n), fuel - 1)
  ELSE n

getMin(a, n) == IF n = 0 THEN 0 ELSE RbMin(a, n, RbFuel)

\* the climb of getNext
RECURSIVE RbClimb(_, _, _, _)
RbClimb(a, n, q, fuel) ==
  IF fuel = 0 THEN -1
  ELSE IF q # 0 /\ n = getRight(a, q) THEN RbClimb(a, q, getParent(a, q), fuel - 1)
  ELSE q

\* getNext(n)
getNext(a, n) ==
  IF n = 0 THEN 0
  ELSE IF getRight(a, n) # 0 THEN getMin(a, getRight(a, n))
  ELSE RbClimb(a, n, getParent(a, n), RbFuel)

\* fixDelete, x a left child: the sibling w is made black
RbSiblingLeft(a, root, xParent) ==
  IF getColor(a, getRight(a, xParent)) = RED
  THEN rotateLeft(setColor(setColor(a, getRight(a, xParent), BLACK), xParent, RED), root, xParent)
  ELSE [a |-> a, root |-> root]

\* fixDelete, x a left child: the branch that ends the loop with x = root
RbFarLeft(s1, w, xParent) ==
  Bind(IF getColor(s1.a, getRight(s1.a, w)) = BLACK
       THEN rotateRight(setColor(setColor(s1.a, getLeft(s1.a, w), BLACK), w, RED), s1.root, w)
       ELSE s1, LAMBDA s2 :
  Bind(getRight(s2.a, xParent), LAMBDA w2 :
  Bind(setColor(s2.a, w2, getColor(s2.a, xParent)), LAMBDA a3 :
  Bind(setColor(a3, xParent, BLACK), LAMBDA a4 :
  Bind(rotateLeft(setColor(a4, getRight(a4, w2), BLACK), s2.root, xParent), LAMBDA s3 :
  [a |-> s3.a, root |-> s3.root, x |-> s3.root, xParent |-> xParent])))))

\* fixDelete, x a left child: one turn of the loop
RbTurnLeft(a, root, xParent) ==
  Bind(RbSiblingLeft(a, root, xParent), LAMBDA s1 :
  Bind(getRight(s1.a, xParent), LAMBDA w :
    IF /\ getColor(s1.a, getLeft(s1.a, w)) = BLACK
       /\ getColor(s1.a, getRight(s1.a, w)) = BLACK
    THEN Bind(setColor(s1.a, w, RED), LAMBDA a2 :
           [a |-> a2, root |-> s1.root, x |-> xParent, xParent |-> getParent(a2, xParent)])
    ELSE RbFarLeft(s1, w, xParent)))

\* fixDelete, x a right child: the sibling w is made black
RbSiblingRight(a, root, xParent) ==
  IF getColor(a, getLeft(a, xParent)) = RED
  THEN rotateRight(setColor(setColor(a, getLeft(a, xParent), BLACK), xParent, RED), root, xParent)
  ELSE [a |-> a, root |-> root]

\* fixDelete, x a right child: the branch that ends the loop with x = root
RbFarRight(s1, w, xParent) ==
  Bind(IF getColor(s1.a, getLeft(s1.a, w)) = BLACK
       THEN rotateLeft(setColor(setColor(s1.a, getRight(s1.a, w), BLACK), w, RED), s1.root, w)
       ELSE s1, LAMBDA s2 :
  Bind(getLeft(s2.a, xParent), LAMBDA w2 :
  Bind(setColor(s2.a, w2, getColor(s2.a, xParent)), LAMBDA a3 :
  Bind(setColor(a3, xParent, BLACK), LAMBDA a4 :
  Bind(rotateRight(setColor(a4, getLeft(a4, w2), BLACK), s2.root, xParent), LAMBDA s3 :
  [a |-> s3.a, root |-> s3.root, x |-> s3.root, xParent |-> xParent])))))

\* fixDelete, x a right child: one turn of the loop
RbTurnRight(a, root, xParent) ==
  Bind(RbSiblingRight(a, root, xParent), LAMBDA s1 :
  Bind(getLeft(s1.a, xParent), LAMBDA w :
    IF /\ getColor(s1.a, getRight(s1.a, w)) = BLACK
       /\ getColor(s1.a, getLeft(s1.a, w)) = BLACK
    THEN Bind(setColor(s1.a, w, RED), LAMBDA a2 :
           [a |-> a2, root |-> s1.root, x |-> xParent, xParent |-> getParent(a2, xParent)])
    ELSE RbFarRight(s1, w, xParent)))

\* fixDelete(root, x, xParent); ok is FALSE when the loop does not end
RECURSIVE fixDelete(_, _, _, _, _)
fixDelete(a, root, x, xParent, fuel) ==
  IF x # root /\ getColor(a, x) = BLACK
  THEN IF fuel = 0 THEN [a |-> a, root |-> root, ok |-> FALSE]
       ELSE Bind(IF x = getLeft(a, xParent) THEN RbTurnLeft(a, root, xParent)
                 ELSE RbTurnRight(a, root, xParent), LAMBDA t :
              fixDelete(t.a, t.root, t.x, t.xParent, fuel - 1))
  ELSE [a |-> setColor(a, x, BLACK), root |-> root, ok |-> TRUE]

\* transplant(root, u, v)
transplant(a, root, u, v) ==
  Bind(getParent(a, u), LAMBDA q :
  Bind(IF q = 0 THEN a
       ELSE IF u = getLeft(a, q) THEN setLeft(a, q, v)
       ELSE setRight(a, q, v), LAMBDA a1 :
  [a |-> IF v # 0 THEN setParent(a1, v, getParent(a1, u)) ELSE a1,
   root |-> IF q = 0 THEN v ELSE root]))

\* deleteNode, z with two children: y = getMin(getRight(z)) takes z's place
RbReplace(a, root, z, y) ==
  Bind(getParent(a, y) = z, LAMBDA near :
  Bind(IF near THEN [a |-> a, root |-> root]
       ELSE transplant(a, root, y, getRight(a, y)), LAMBDA t1 :
  Bind(IF near THEN t1.a ELSE setRight(t1.a, y, getRight(t1.a, z)), LAMBDA a2 :
  Bind(IF near THEN a2 ELSE setParent(a2, getRight(a2, y), y), LAMBDA a3 :
  Bind(transplant(a3, t1.root, z, y), LAMBDA t2 :
  Bind(setLeft(t2.a, y, getLeft(t2.a, z)), LAMBDA a4 :
  Bind(setParent(a4, getLeft(a4, y), y), LAMBDA a5 :
  [a |-> setColor(a5, y, getColor(a5, z)), root |-> t2.root, x |-> getRight(a, y),
   xParent |-> IF near THEN y ELSE getParent(a, y),
   yOrigColor |-> getColor(a, y), ok |-> TRUE])))))))

\* the three cases of deleteNode before freeNode(z)
RbUnlink(a, root, z) ==
  IF getLeft(a, z) = 0
  THEN Bind(transplant(a, root, z, getRight(a, z)), LAMBDA t :
         [a |-> t.a, root |-> t.root, x |-> getRight(a, z), xParent |-> getParent(a, z),
          yOrigColor |-> getColor(a, z), ok |-> TRUE])
  ELSE IF getRight(a, z) = 0
  THEN Bind(transplant(a, root, z, getLeft(a, z)), LAMBDA t :
         [a |-> t.a, root |-> t.root, x |-> getLeft(a, z), xParent |-> getParent(a, z),
          yOrigColor |-> getColor(a, z), ok |-> TRUE])
  ELSE Bind(getMin(a, getRight(a, z)), LAMBDA y :
         IF y = -1
         THEN [a |-> a, root |-> root, x |-> 0, xParent |-> 0, yOrigColor |-> RED, ok |-> FALSE]
         ELSE RbReplace(a, root, z, y))

\* deleteNode(root, z)
deleteNode(a, root, z) ==
  IF z = 0 THEN [a |-> a, root |-> root, ok |-> TRUE]
  ELSE Bind(RbUnlink(a, root, z), LAMBDA u :
         IF ~u.ok THEN [a |-> a, root |-> root, ok |-> FALSE]
         ELSE IF u.yOrigColor = BLACK /\ u.root # 0
         THEN fixDelete(RbFreeNode(u.a, z), u.root, u.x, u.xParent, RbFuel)
         ELSE [a |-> RbFreeNode(u.a, z), root |-> u.root, ok |-> TRUE])

\* deleteBlob(root, keyLen)
deleteBlob(a, root, key) ==
  Bind(findBlob(a, root, key), LAMBDA n :
    IF n = -1 THEN [a |-> a, root |-> root, ok |-> FALSE]
    ELSE IF n # 0 THEN deleteNode(a, root, n)
    ELSE [a |-> a, root |-> root, ok |-> TRUE])

\* the bytes of a packed blob: decodeKeyFast, and decodeValue for 'string'
RbDecode(a, packed) ==
  [i \in 1..(packed \div LenShift) |-> RbByte(a, (packed % LenShift) + i - 1)]

\* get(key): <<value>>, or <<>> for undefined
RbGet(a, m, key) ==
  IF m.root = 0 THEN <<>>
  ELSE LET node == findBlob(a, m.root, key)
       IN IF node = 0 \/ node = -1 THEN <<>> ELSE <<RbDecode(a, getValPacked(a, node))>>

\* has(key)
RbHas(a, m, key) == m.root # 0 /\ findBlob(a, m.root, key) # 0

\* entriesNatural(), keys only, cut after fuel nodes
RECURSIVE RbWalk(_, _, _)
RbWalk(a, node, fuel) ==
  IF node = 0 \/ node = -1 \/ fuel = 0 THEN <<>>
  ELSE <<RbDecode(a, getKeyPacked(a, node))>> \o RbWalk(a, getNext(a, node), fuel - 1)

RbKeys(a, m) == IF m.root = 0 THEN <<>> ELSE RbWalk(a, getMin(a, m.root), RbFuel)

notRb == <<mapVars, workerVars, dllVars, sllVars, pqVars, omVars, moreVars>>

RbCommit(a) ==
  /\ rbCalls' = rbCalls + 1
  /\ rbMem' = a.mem
  /\ rbHeapEnd' = a.heapEnd
  /\ rbFreeList' = a.freeList

\* the caller keeps the map returned by operation op on map h
RbReturn(op, h, m) ==
  LET id == CHOOSE i \in RbIds \ DOMAIN rbMaps : \A j \in RbIds \ DOMAIN rbMaps : i <= j
  IN /\ rbMaps' = [x \in (DOMAIN rbMaps) \cup {id} |-> IF x = id THEN m ELSE rbMaps[x]]
     /\ last' = [op |-> op, h |-> h]

\* new SharedSortedMap(type, comparator, root, size): an object with a root
\* is registered with the generation current at its construction.  The
\* field keys is history: the keys set on the map, or on the maps it was
\* derived from, and not deleted from them since.
RbHandle(root, size, keys) ==
  [root |-> root, size |-> size,
   gen |-> IF root # 0 THEN rbGeneration ELSE Undefined,
   keys |-> keys]

\* the caller keeps the map that set(key) or delete(key) on map h returned
RbReturnOf(op, h, m, key) ==
  LET id == CHOOSE i \in RbIds \ DOMAIN rbMaps : \A j \in RbIds \ DOMAIN rbMaps : i <= j
  IN /\ rbMaps' = [x \in (DOMAIN rbMaps) \cup {id} |-> IF x = id THEN m ELSE rbMaps[x]]
     /\ last' = [op |-> op, h |-> h, r |-> id, key |-> key]

\* delete(key) returned the map h itself
RbReturnThis(op, h, key) ==
  /\ last' = [op |-> op, h |-> h, r |-> h, key |-> key]
  /\ UNCHANGED <<rbMem, rbHeapEnd, rbFreeList, rbMaps, rbCalls>>

\* the arena still has room for the calls explored
RbRoom == rbHeapEnd - RbHeapStart < MaxRbBytes /\ rbCalls < MaxRbCalls

\* new SharedSortedMap('string')
RbNew ==
  /\ DOMAIN rbMaps # RbIds
  /\ \A i \in DOMAIN rbMaps : rbMaps[i].root # 0
  /\ RbReturn("rb.new", 0, RbHandle(0, 0, {}))
  /\ UNCHANGED <<rbMem, rbHeapEnd, rbFreeList, rbCalls, rbGeneration, notRb>>

\* set(key, value): encodeValueFast, then insertBlob
RbSetOp(a, m, key, val) ==
  Bind(RbAllocBlob(a, val), LAMBDA vb :
    insertBlob(vb.a, m.root, key, vb.ptr + (Len(val) * LenShift)))

\* the map that set() returns, kept by the caller
RbSetDone(h, r, key) ==
  /\ r.ok
  /\ RbCommit(r.a)
  /\ RbReturnOf("rb.set", h,
       RbHandle(r.root, IF r.existed # 0 THEN rbMaps[h].size ELSE rbMaps[h].size + 1,
                rbMaps[h].keys \cup {key}), key)

\* the map that delete() returns, kept by the caller
RbDeleteDone(h, r, key) ==
  /\ r.ok
  /\ RbCommit(r.a)
  /\ RbReturnOf("rb.delete", h,
       RbHandle(r.root, rbMaps[h].size - 1, rbMaps[h].keys \ {key}), key)

\* m2 = m.set(key, value), for a call that returns
RbSet(h, key, val) ==
  /\ h \in DOMAIN rbMaps /\ DOMAIN rbMaps # RbIds
  /\ RbRoom
  /\ RbSetDone(h, RbSetOp(RbSt, rbMaps[h], key, val), key)
  /\ UNCHANGED <<rbGeneration, notRb>>

\* m2 = m.delete(key), for a call that returns: m itself when m has no root
\* or findBlob does not find the key
RbDelete(h, key) ==
  /\ h \in DOMAIN rbMaps
  /\ IF rbMaps[h].root = 0 \/ findBlob(RbSt, rbMaps[h].root, key) = 0
     THEN RbReturnThis("rb.delete", h, key)
     ELSE /\ DOMAIN rbMaps # RbIds /\ RbRoom
          /\ findBlob(RbSt, rbMaps[h].root, key) # -1
          /\ RbDeleteDone(h, deleteBlob(RbSt, rbMaps[h].root, key), key)
  /\ UNCHANGED <<rbGeneration, notRb>>

\* the caller lets go of a map object; nothing is released in the arena
RbDrop(h) ==
  /\ h \in DOMAIN rbMaps
  /\ rbMaps' = [x \in (DOMAIN rbMaps) \ {h} |-> rbMaps[x]]
  /\ last' = [op |-> "rb.drop", h |-> 0]
  /\ UNCHANGED <<rbMem, rbHeapEnd, rbFreeList, rbCalls, rbGeneration, notRb>>

NextRb ==
  \/ RbNew
  \/ \E h \in RbIds, k \in RbKeySet, v \in RbValSet : RbSet(h, k, v)
  \/ \E h \in RbIds, k \in RbKeySet : RbDelete(h, k)
  \/ \E h \in RbIds : RbDrop(h)

SpecRb == Init /\ [][NextRb]_vars

\* C18: m.set(k, v).size is m.size + 1 when k is not a key of m and m.size
\* when it is; m.delete(k).size is m.size - 1 when k is a key of m and m.size
\* when it is not; also for a map m from which other maps were derived.
C18_RbSizeLaws ==
  [][last'.op \in {"rb.set", "rb.delete"} =>
       LET m  == rbMaps[last'.h]
           m2 == rbMaps'[last'.r]
       IN IF last'.op = "rb.set"
          THEN m2.size = m.size + (IF last'.key \in m.keys THEN 0 ELSE 1)
          ELSE m2.size = m.size - (IF last'.key \in m.keys THEN 1 ELSE 0)]_vars

\* bytewise order of two keys, the shorter first when one is a prefix
RECURSIVE KeyBefore(_, _, _)
KeyBefore(x, y, i) ==
  IF i > Len(x) THEN i <= Len(y)
  ELSE IF i > Len(y) THEN FALSE
  ELSE IF x[i] # y[i] THEN x[i] < y[i]
  ELSE KeyBefore(x, y, i + 1)

\* C20: iterating a SharedSortedMap made without a comparator yields keys in
\* strictly ascending bytewise order.
C20_RbIterationAscending ==
  \A h \in DOMAIN rbMaps :
    \A i \in 1..(Len(RbKeys(RbSt, rbMaps[h])) - 1) :
      KeyBefore(RbKeys(RbSt, rbMaps[h])[i], RbKeys(RbSt, rbMaps[h])[i + 1], 1)

\* the red-black invariants below node n, whose parent is to be q and whose
\* keys are to lie between lo and hi (<<>> for no limit): the number of black
\* nodes on every path from n down to a nil child, nil counted, or -1 when
\* an invariant is broken or more than fuel nodes lie on a path
RECURSIVE RbBlackHeight(_, _, _, _, _, _)
RbBlackHeight(a, n, q, lo, hi, fuel) ==
  IF n = 0 THEN 1
  ELSE IF n = -1 \/ fuel = 0 THEN -1
  ELSE LET key == RbDecode(a, getKeyPacked(a, n))
           l   == RbBlackHeight(a, getLeft(a, n), n, lo, <<key>>, fuel - 1)
           r   == RbBlackHeight(a, getRight(a, n), n, <<key>>, hi, fuel - 1)
       IN IF \/ getParent(a, n) # q
             \/ lo # <<>> /\ ~KeyBefore(lo[1], key, 1)
             \/ hi # <<>> /\ ~KeyBefore(key, hi[1], 1)
             \/ /\ getColor(a, n) = RED
                /\ RED \in {getColor(a, getLeft(a, n)), getColor(a, getRight(a, n))}
             \/ l = -1 \/ r = -1 \/ l # r
          THEN -1
          ELSE l + (IF getColor(a, n) = BLACK THEN 1 ELSE 0)

RbTreeOk(a, root) ==
  /\ getColor(a, root) = BLACK
  /\ RbBlackHeight(a, root, 0, <<>>, <<>>, RbFuel) # -1

\* C27: after every set or delete the tree under the root of the returned
\* map has a black root without parent, no red node with a red child, the
\* same number of black nodes on every path from the root to a nil child,
\* keys in strict search-tree order and parent pointers that name the parent.
C27_RbInvariantsAfterMutation ==
  (last.op \in {"rb.set", "rb.delete"} /\ last.r \in DOMAIN rbMaps)
    => RbTreeOk(RbSt, rbMaps[last.r].root)

\* ------------------------------------------------------------------------
\* SharedSortedSet (shared-sorted-set.ts) holding numbers: a set object is
\* the SharedSortedMap('number') that it wraps, with the keys String(value)
\* and the value 0 stored as the eight bytes of the double.
\* ------------------------------------------------------------------------
SsNumbers == {1, 2, 9, 10}

\* String(value) for a whole number >= 0: its decimal digits
RECURSIVE NumToKey(_)
NumToKey(n) == IF n < 10 THEN <<48 + n>> ELSE NumToKey(n \div 10) \o <<48 + (n % 10)>>

\* Number(k) for a key that matches /^-?\d+(\.\d+)?$/ and is all digits
RECURSIVE KeyToNum(_)
KeyToNum(k) ==
  IF k = <<>> THEN 0 ELSE 10 * KeyToNum(SubSeq(k, 1, Len(k) - 1)) + (k[Len(k)] - 48)

\* encodeValueFast('number', 0): the eight bytes of the double 0
SsZero == <<0, 0, 0, 0, 0, 0, 0, 0>>

\* values(): the keys of the wrapped map, numeric strings turned to numbers
SsValues(a, m) == [i \in 1..Len(RbKeys(a, m)) |-> KeyToNum(RbKeys(a, m)[i])]

\* s2 = s.add(value): s itself when the map has the key
SsAdd(h, value) ==
  /\ h \in DOMAIN rbMaps
  /\ IF RbHas(RbSt, rbMaps[h], NumToKey(value))
     THEN RbReturnThis("ss.add", h, NumToKey(value)) /\ UNCHANGED <<rbGeneration, notRb>>
     ELSE RbSet(h, NumToKey(value), SsZero)

\* s2 = s.delete(value)
SsDelete(h, value) == RbDelete(h, NumToKey(value))

\* calls applied one after another from an empty set
NextSs ==
  \/ rbMaps = <<>> /\ RbNew
  \/ \E h \in RbIds, n \in SsNumbers : DOMAIN rbMaps = {h} /\ SsAdd(h, n)
  \/ \E h \in RbIds, n \in SsNumbers : DOMAIN rbMaps = {h} /\ SsDelete(h, n)
  \/ \E h \in RbIds : /\ last.op \in {"rb.set", "rb.delete"}
                      /\ h = last.h /\ h # last.r
                      /\ RbDrop(h)

SpecSs == Init /\ [][NextSs]_vars

\* C37: values() of a SharedSortedSet holding numbers yields them in
\* ascending numeric order.
C37_SsValuesAscending ==
  (last.op \in {"rb.set", "rb.delete", "ss.add"} /\ last.r \in DOMAIN rbMaps) =>
    \A i \in 1..(Len(SsValues(RbSt, rbMaps[last.r])) - 1) :
      SsValues(RbSt, rbMaps[last.r])[i] < SsValues(RbSt, rbMaps[last.r])[i + 1]

\* ------------------------------------------------------------------------
\* SharedSortedMap with a custom comparator.  A comparator is a function of
\* the caller; two are used: one that orders keys as the tree does and one
\* that reverses that order.  NoComparator stands for undefined.
\* ------------------------------------------------------------------------
NoComparator == "undefined"
Comparators == {"ascending", "reverse"}

\* comparator(x, y) < 0
RbcBefore(c, x, y) == IF c = "reverse" THEN KeyBefore(y, x, 1) ELSE KeyBefore(x, y, 1)

\* all.sort((a, b) => comparator(a[0], b[0])), keys only
RECURSIVE RbcSort(_, _)
RbcSort(ks, c) ==
  IF ks = <<>> THEN <<>>
  ELSE LET rest == RbcSort(Tail(ks), c)
           n    == Cardinality({i \in 1..Len(rest) : RbcBefore(c, rest[i], Head(ks))})
       IN SubSeq(rest, 1, n) \o <<Head(ks)>> \o SubSeq(rest, n + 1, Len(rest))

\* keys(): entries() sorts by the comparator when the map has one
RbcKeys(a, m) ==
  IF m.comparator # NoComparator THEN RbcSort(RbKeys(a, m), m.comparator) ELSE RbKeys(a, m)

\* new SharedSortedMap(type, comparator, root, size)
RbcHandle(root, size, keys, comparator) ==
  [root |-> root, size |-> size,
   gen |-> IF root # 0 THEN rbGeneration ELSE Undefined,
   keys |-> keys, comparator |-> comparator]

\* new SharedSortedMap('string', comparator)
RbcNew(c) ==
  /\ rbMaps = <<>>
  /\ RbReturn("rbc.new", 0, RbcHandle(0, 0, {}, c))
  /\ UNCHANGED <<rbMem, rbHeapEnd, rbFreeList, rbCalls, rbGeneration, notRb>>

\* m2 = m.set(key, value): the result has m's comparator
RbcSet(h, key, val) ==
  /\ h \in DOMAIN rbMaps /\ DOMAIN rbMaps # RbIds
  /\ RbRoom
  /\ LET m == rbMaps[h]
         r == RbSetOp(RbSt, m, key, val)
     IN /\ r.ok
        /\ RbCommit(r.a)
        /\ RbReturnOf("rbc.set", h,
             RbcHandle(r.root, IF r.existed # 0 THEN m.size ELSE m.size + 1,
                       m.keys \cup {key}, m.comparator), key)
  /\ UNCHANGED <<rbGeneration, notRb>>

\* m2 = SharedSortedMap.fromWorkerData(m.toWorkerData())
RbcFromWorkerData(h) ==
  /\ h \in DOMAIN rbMaps /\ DOMAIN rbMaps # RbIds
  /\ RbReturnOf("rbc.fromWorkerData", h,
       RbcHandle(rbMaps[h].root, rbMaps[h].size, rbMaps[h].keys, NoComparator), <<>>)
  /\ UNCHANGED <<rbMem, rbHeapEnd, rbFreeList, rbCalls, rbGeneration, notRb>>

\* set calls applied one after another from an empty map with a comparator,
\* and round trips through worker data; of the two maps held after a call
\* either one is then let go
NextRbCmp ==
  \/ \E c \in Comparators : RbcNew(c)
  \/ \E h \in RbIds, k \in RbKeySet, v \in RbValSet : DOMAIN rbMaps = {h} /\ RbcSet(h, k, v)
  \/ \E h \in RbIds : DOMAIN rbMaps = {h} /\ RbcFromWorkerData(h)
  \/ \E h \in RbIds : /\ last.op \in {"rbc.new", "rbc.set", "rbc.fromWorkerData"}
                      /\ DOMAIN rbMaps = RbIds
                      /\ (last.op = "rbc.set" => h = last.h)
                      /\ RbDrop(h)

SpecRbCmp == Init /\ [][NextRbCmp]_vars

\* C38: the map restored from the worker data of a SharedSortedMap made
\* with a custom comparator iterates its keys in the same order as the
\* original.
C38_RestoredKeepsOrder ==
  (last.op = "rbc.fromWorkerData") =>
    RbcKeys(RbSt, rbMaps[last.r]) = RbcKeys(RbSt, rbMaps[last.h])

\* resetSortedMap(): generation++; wasm.reset() sets heapEnd to HEAP_START
\* and empties the free list.  The bytes of the arena stay as they are.
ResetSortedMap ==
  /\ rbGeneration < MaxRbGen
  /\ rbGeneration' = rbGeneration + 1
  /\ rbHeapEnd' = RbHeapStart
  /\ rbFreeList' = 0
  /\ last' = [op |-> "rb.reset", h |-> 0]
  /\ UNCHANGED <<rbMem, rbMaps, rbCalls, notRb>>

NextRbReset ==
  \/ RbNew
  \/ \E h \in RbIds, k \in RbKeySet, v \in RbValSet : RbSet(h, k, v)
  \/ \E h \in RbIds : RbDrop(h)
  \/ ResetSortedMap

SpecRbReset == Init /\ [][NextRbReset]_vars

\* a SharedSortedMap object made before the last resetSortedMap()
RbStale(m) == m.gen # Undefined /\ m.gen < rbGeneration

\* C15: after resetSortedMap(), every read on a SharedSortedMap made before
\* the reset gives the absent result: get is undefined, has is false, size is
\* 0 and the iteration is empty.
C15_StaleReadsAbsent ==
  \A h \in DOMAIN rbMaps :
    RbStale(rbMaps[h]) =>
      /\ rbMaps[h].size = 0
      /\ RbKeys(RbSt, rbMaps[h]) = <<>>
      /\ \A k \in RbKeySet : /\ RbGet(RbSt, rbMaps[h], k) = <<>>
                             /\ ~RbHas(RbSt, rbMaps[h], k)

\* C2: h2 = h.set(k, v) and h2 = h.delete(k) leave the key sequence, the
\* get and has results and the size read from h unchanged.
C2_RbOriginalUnchanged ==
  [][last'.op \in {"rb.set", "rb.delete"} =>
       LET m  == rbMaps[last'.h]
           a1 == [mem |-> rbMem', heapEnd |-> rbHeapEnd', freeList |-> rbFreeList']
       IN /\ rbMaps'[last'.h] = m
          /\ RbKeys(a1, m) = RbKeys(RbSt, m)
          /\ \A k \in RbKeySet : /\ RbGet(a1, m, k) = RbGet(RbSt, m, k)
                                 /\ RbHas(a1, m, k) = RbHas(RbSt, m, k)]_vars

\* ------------------------------------------------------------------------
\* Worker hand-over of a SharedMap (SpecWorker)
\* ------------------------------------------------------------------------
\* getWorkerData({m: h}): the SharedMap branch serializes root and valueType
GetWorkerData(h) ==
  /\ h \in DOMAIN maps
  /\ workerData' = <<[type |-> "SharedMap",
                      data |-> [root |-> maps[h].root, valueType |-> maps[h].type],
                      of   |-> h]>>
  /\ UNCHANGED <<mapVars, restored, dllVars, sllVars, pqVars, omVars, rbVars, moreVars, last>>

\* SharedMap.fromWorkerData(root, valueType, size): new SharedMap(valueType, 0, 0),
\* then root is overwritten, and _size too when a size is passed.  The
\* handle has no root slot and is kept apart from the handles of maps.
fromWorkerData(root, valueType, size) ==
  [type |-> valueType, root |-> root,
   size |-> IF size = <<>> THEN 0 ELSE size[1], slot |-> NoSlot]

\* getWorkerData({s: set}): the SharedSet branch serializes the root of the
\* set's map and nothing else
GetWorkerDataSet(h) ==
  /\ h \in DOMAIN maps
  /\ maps[h].type = TypeNumber
  /\ workerData' = <<[type |-> "SharedSet",
                      data |-> [root |-> maps[h].root],
                      of   |-> h]>>
  /\ UNCHANGED <<mapVars, restored, dllVars, sllVars, pqVars, omVars, rbVars, moreVars, last>>

\* a property read data[name]: undefined when data is a number
JsProp(isObject, data, name) == IF isObject THEN data[name] ELSE Undefined

\* a number handed to wasm: undefined becomes 0
ToUint32(x) == IF x = Undefined THEN 0 ELSE x

\* SharedSet.fromWorkerData(data): the map is rebuilt from data.root and its
\* _size is overwritten with data.size
SetFromWorkerData(isObject, data) ==
  [fromWorkerData(ToUint32(JsProp(isObject, data, "root")), TypeNumber, <<>>)
     EXCEPT !.size = JsProp(isObject, data, "size")]

\* initWorker(data): the SharedMap case passes data.root and data.valueType,
\* the SharedSet case passes the number data.root as the whole argument.
\* In the calling thread the module's memory is the arena of the handle;
\* in a worker thread the module has instantiated a memory of its own and
\* initWorker attaches nothing for SharedMap.
InitWorker(thread) ==
  /\ workerData # <<>>
  /\ restored' = <<[h      |-> IF workerData[1].type = "SharedMap"
                                THEN fromWorkerData(workerData[1].data.root,
                                                    workerData[1].data.valueType, <<>>)
                                ELSE SetFromWorkerData(FALSE, workerData[1].data.root),
                    type   |-> workerData[1].type,
                    thread |-> thread,
                    of     |-> workerData[1].of]>>
  /\ UNCHANGED <<mapVars, workerData, dllVars, sllVars, pqVars, omVars, rbVars, moreVars, last>>

\* the memory the restored handle reads
RestoredMemory == IF restored[1].thread = "main" THEN wasm ELSE WasmInit

NextWorker ==
  \/ MapNew(TypeNumber)
  \/ \E h \in MapIds, k \in Keys, v \in Vals : opsSinceGC < MaxOps /\ MapSet(h, k, v)
  \/ \E h \in MapIds, k \in Keys : opsSinceGC < MaxOps /\ MapDelete(h, k)
  \/ \E h \in MapIds : GetWorkerData(h)
  \/ \E h \in MapIds : GetWorkerDataSet(h)
  \/ \E t \in {"main", "worker"} : InitWorker(t)

SpecWorker == Init /\ [][NextWorker]_vars

\* C10: the handle restored by initWorker(getWorkerData({m: h})) has
\* size equal to h.size and its forEach visits exactly the entries of h.
C10_RestoredMapEqual ==
  (restored # <<>> /\ restored[1].type = "SharedMap") =>
    /\ MapSize(restored[1].h) = MapSize(maps[restored[1].of])
    /\ MapView(RestoredMemory, restored[1].h) = MapView(wasm, maps[restored[1].of])

\* C11: the set restored by initWorker(getWorkerData({s: s})) has the size of
\* s and answers has(x) as s does, for every x.
C11_RestoredSetEqual ==
  (restored # <<>> /\ restored[1].type = "SharedSet") =>
    /\ MapSize(restored[1].h) = MapSize(maps[restored[1].of])
    /\ \A x \in Keys : MapHas(RestoredMemory, restored[1].h, x)
                        = MapHas(wasm, maps[restored[1].of], x)

\* ------------------------------------------------------------------------
\* Auto-GC with the default thresholds (SpecGC).  The caller writes through
\* one handle at a time and lets go of the results, so that the run reaches
\* the operation count at which maybeGC drains pendingDispose; the run is
\* followed up to and including the first drain.
\* ------------------------------------------------------------------------
OneWriter ==
  /\ opsSinceGC <= Len(pendingDispose) + MaxOps
  /\ Len(pendingDispose) >= 2 =>
       pendingDispose[Len(pendingDispose)] = pendingDispose[Len(pendingDispose) - 1]

\* no handle has lost the root slot it was created with
NoDrainYet == \A g \in DOMAIN maps : maps[g].slot = maps[g].slot0

GCNew == NoDrainYet /\ MapNew(TypeNumber) /\ OneWriter'
GCSet(h, k, v) == NoDrainYet /\ MapSet(h, k, v) /\ OneWriter'
GCDelete(h, k) == NoDrainYet /\ MapDelete(h, k) /\ OneWriter'
GCFinalize(h) == NoDrainYet /\ MapFinalize(h) /\ OneWriter'

NextGC ==
  \/ GCNew
  \/ \E h \in MapIds, k \in Keys, v \in Vals : GCSet(h, k, v)
  \/ \E h \in MapIds, k \in Keys : GCDelete(h, k)
  \/ \E h \in MapIds : GCFinalize(h)

SpecGC == Init /\ [][NextGC]_vars

\* ------------------------------------------------------------------------
\* A SharedSet stored as a value of a SharedMap (SpecNested), with the
\* default auto-GC thresholds and the same caller discipline as SpecGC.
\* ------------------------------------------------------------------------
NestedNew(t) == NoDrainYet /\ MapNew(t) /\ OneWriter'
NestedAdd(h, x) == NoDrainYet /\ SetAdd(h, x) /\ OneWriter'
NestedDelete(h, x) == NoDrainYet /\ SetDelete(h, x) /\ OneWriter'
NestedStore(m, k, h) == NoDrainYet /\ MapSetNested(m, k, h) /\ OneWriter'
NestedFinalize(h) == NoDrainYet /\ MapFinalize(h) /\ OneWriter'

NextNested ==
  \/ \E t \in {TypeNumber, TypeNestedSet} : NestedNew(t)
  \/ \E h \in MapIds, x \in Keys : NestedAdd(h, x)
  \/ \E h \in MapIds, x \in Keys : NestedDelete(h, x)
  \/ \E m \in MapIds, k \in Keys, h \in MapIds : NestedStore(m, k, h)
  \/ \E h \in MapIds : NestedFinalize(h)

SpecNested == Init /\ [][NextNested]_vars

\* C1: with auto-GC at its default configuration, a handle the caller holds
\* and has not disposed keeps the root slot it was created with, and its
\* reads (get, has, forEach) keep returning the contents it was created
\* with, after any number of later set and delete calls.
C1_HeldHandleStaysValid ==
  \A h \in DOMAIN maps :
    (~maps[h].userDisposed /\ maps[h].gen0 = generation)
    => /\ maps[h].slot = maps[h].slot0
       /\ MapView(wasm, maps[h]) = maps[h].view0

\* C7: after m2 = m.set(key, s) stored the SharedSet s in a SharedMap, later
\* add and delete calls on s or on handles derived from it leave
\* m2.get(key) with exactly the members and the size it had at store time.
C7_StoredSetUnchanged ==
  \A e \in nested :
    (/\ ~maps[e.outer].userDisposed
     /\ maps[e.outer].slot = maps[e.outer].slot0
     /\ MapView(wasm, maps[e.outer]) = maps[e.outer].view0)
    => NestedGet(wasm, maps[e.outer], e.key) = [members |-> e.members, size |-> e.size]

\* ------------------------------------------------------------------------
\* Root-slot ownership (SpecMap)
\* ------------------------------------------------------------------------
\* h is disposed or finalized by the step
Retires(h) ==
  \/ h \notin DOMAIN maps'
  \/ HasSlot(maps[h].slot) /\ ~HasSlot(maps'[h].slot)

\* g owns its root slot: the slot is in use and holds g's root
OwnsSlot(g) ==
  /\ HasSlot(maps[g].slot)
  /\ maps[g].gen0 = generation
  /\ wasm.roots[maps[g].slot] = [used |-> TRUE, ptr |-> maps[g].root]

\* C8: disposing or finalizing one SharedMap handle never clears, releases
\* or reassigns the root slot of a different live handle (handles of the
\* current generation, no reset in between).
C8_OtherSlotsUntouched ==
  [][\A h \in DOMAIN maps : \A g \in DOMAIN maps :
       (/\ h # g
        /\ generation' = generation
        /\ maps[h].gen0 = generation
        /\ Retires(h)
        /\ OwnsSlot(g)
        /\ g \in DOMAIN maps'
        /\ maps'[g].slot = maps[g].slot)
       => wasm'.roots[maps[g].slot] = wasm.roots[maps[g].slot]]_vars

\* C9: after resetMap(), disposing or finalizing a handle created before
\* the reset changes neither the root-slot table nor the free-slot list
\* that the handles created after the reset use.
C9_StaleHandleInert ==
  [][\A h \in DOMAIN maps :
       (/\ generation' = generation
        /\ maps[h].gen0 < generation
        /\ Retires(h))
       => (wasm'.roots = wasm.roots /\ freeSlots' = freeSlots)]_vars


\* ------------------------------------------------------------------------
\* Hand-over of a SharedDoublyLinkedList to a worker thread (SpecAttach):
\* getWorkerData in the publisher, initWorker and append in the worker.
\* ------------------------------------------------------------------------
WkIds == 1..MaxWkHandles

notAtt == <<mapVars, workerVars, sllVars, pqVars, omVars, rbVars, slVars, lhVars>>

\* getWorkerData({l: h}): toWorkerData() of the list, the allocator state of
\* the family and, under Bun, a copy of the bytes, otherwise the memory object
DllGetWorkerData(h) ==
  /\ h \in DOMAIN dllLists
  /\ snapshot' =
       <<[structures |-> dllLists[h],
          doublyLinkedListAllocState |-> [heapEnd |-> dllHeapEnd, freeList |-> dllFreeList],
          doublyLinkedListBufferCopy |-> IF isBun THEN <<dllMem>> ELSE <<>>,
          doublyLinkedListMemory |-> ~isBun]>>
  /\ last' = [op |-> "getWorkerData", h |-> h]
  /\ UNCHANGED <<dllVars, isBun, workerInitialized, wkAttached, wkMem, wkHeapEnd,
                 wkFreeList, wkLists, wkInits, notAtt>>

\* initWorker(data) in the worker: on the first call only, and only when the
\* message carries the memory object, attachToMemory(memory, allocState);
\* then SharedDoublyLinkedList.fromWorkerData for the structure
AttInitWorker ==
  /\ snapshot # <<>>
  /\ wkInits < MaxInits
  /\ DOMAIN wkLists # WkIds
  /\ LET d      == snapshot[1]
         attach == ~workerInitialized /\ d.doublyLinkedListMemory
         id     == CHOOSE i \in WkIds \ DOMAIN wkLists : \A j \in WkIds \ DOMAIN wkLists : i <= j
     IN /\ wkAttached' = (wkAttached \/ attach)
        /\ wkHeapEnd' = IF attach THEN d.doublyLinkedListAllocState.heapEnd ELSE wkHeapEnd
        /\ wkFreeList' = IF attach THEN d.doublyLinkedListAllocState.freeList ELSE wkFreeList
        /\ wkLists' = WithList(wkLists, id, d.structures)
        /\ last' = [op |-> "initWorker", h |-> id]
  /\ workerInitialized' = TRUE
  /\ wkInits' = wkInits + 1
  /\ UNCHANGED <<dllVars, isBun, snapshot, wkMem, notAtt>>

\* the wasm instance of the worker: its globals, over the memory it is on
WkSt(shared, own) ==
  [mem |-> IF wkAttached THEN shared ELSE own, heapEnd |-> wkHeapEnd, freeList |-> wkFreeList]

WkCommit(a) ==
  /\ dllMem' = IF wkAttached THEN a.mem ELSE dllMem
  /\ wkMem' = IF wkAttached THEN wkMem ELSE a.mem
  /\ wkHeapEnd' = a.heapEnd
  /\ wkFreeList' = a.freeList

\* l2 = l1.append(v) in the worker, on a list it holds
WkAppend(h, v) ==
  /\ h \in DOMAIN wkLists /\ DOMAIN wkLists # WkIds
  /\ DllRoom(WkSt(dllMem, wkMem)) /\ wkLists[h].size < MaxListNodes
  /\ LET l  == wkLists[h]
         r  == DllWasmAppend(WkSt(dllMem, wkMem), l.tail, v)
         id == CHOOSE i \in WkIds \ DOMAIN wkLists : \A j \in WkIds \ DOMAIN wkLists : i <= j
     IN /\ WkCommit(r.a)
        /\ wkLists' = WithList(wkLists, id,
             [head |-> IF l.head # 0 THEN l.head ELSE r.node, tail |-> r.node,
              size |-> l.size + 1])
        /\ last' = [op |-> "worker.append", h |-> h]
  /\ UNCHANGED <<dllHeapEnd, dllFreeList, dllLists, isBun, snapshot, workerInitialized,
                 wkAttached, wkInits, notAtt>>

NextAttach ==
  \/ DllNew
  \/ \E h \in ListIds, v \in ListVals : DllAppend(h, v)
  \/ \E h \in ListIds : DllGetWorkerData(h)
  \/ AttInitWorker
  \/ \E h \in WkIds, v \in ListVals : WkAppend(h, v)

SpecAttach == InitEitherRuntime /\ [][NextAttach]_vars

\* C12: the first initWorker call puts the worker's doubly-linked-list view
\* on what was transmitted (the memory object, or the bytes of the copy) and
\* sets the worker's heapEnd and free-list head from the snapshot.
C12_FirstInitAttaches ==
  [][(last'.op = "initWorker" /\ ~workerInitialized) =>
       LET d == snapshot[1]
       IN /\ IF d.doublyLinkedListMemory
             THEN wkAttached'
             ELSE ~wkAttached' /\ wkMem' = d.doublyLinkedListBufferCopy[1]
          /\ wkHeapEnd' = d.doublyLinkedListAllocState.heapEnd
          /\ wkFreeList' = d.doublyLinkedListAllocState.freeList]_vars

\* C13: after every initWorker call that receives the memory object, the
\* worker's heapEnd and free-list head are the ones the snapshot carries.
C13_EveryInitAligns ==
  [][(last'.op = "initWorker" /\ snapshot[1].doublyLinkedListMemory) =>
       /\ wkHeapEnd' = snapshot[1].doublyLinkedListAllocState.heapEnd
       /\ wkFreeList' = snapshot[1].doublyLinkedListAllocState.freeList]_vars

\* C14: an append made by the worker on a list it received changes no
\* toArray(), toArrayReverse() or size read from a list of the publisher.
C14_WorkerVersionsPrivate ==
  [][last'.op = "worker.append" =>
       \A h \in DOMAIN dllLists :
         /\ dllLists'[h] = dllLists[h]
         /\ DllToArray(dllMem', dllLists[h]) = DllToArray(dllMem, dllLists[h])
         /\ DllToArrayReverse(dllMem', dllLists[h]) = DllToArrayReverse(dllMem, dllLists[h])]_vars


\* ------------------------------------------------------------------------
\* SharedList (shared-list.ts).  The vector wasm is not among the sources:
\* vecPush, vecSet, vecPop and vecGet are modelled from the specification of
\* the persistent vector (a new root per version, elements by position),
\* with a root standing for the whole vector under it and depth always 0.
\* ------------------------------------------------------------------------
SlIds == 1..MaxSlHandles
SlTypes == {"number", "boolean"}
SlValues(type) == IF type = "number" THEN 1..MaxSlVal ELSE BOOLEAN

notSl == <<mapVars, workerVars, dllVars, sllVars, pqVars, omVars, rbVars, attVars, lhVars>>

SlSt == [vecs |-> slVecs, refs |-> slRefs, heapEnd |-> slHeapEnd]

\* encode(value) and decode(raw) for the types 'number' and 'boolean'
SlEncode(type, value) == IF type = "number" THEN value ELSE IF value THEN 1 ELSE 0
SlDecode(type, raw) == IF type = "number" THEN raw ELSE raw # 0

\* the elements under a root, as vecGet(root, depth, i) reads them
SlElems(a, root, size) ==
  IF root = 0 \/ root \notin DOMAIN a.vecs THEN <<>>
  ELSE SubSeq(a.vecs[root], 1, IF size < Len(a.vecs[root]) THEN size ELSE Len(a.vecs[root]))

SlAllocRoot(a, elems) ==
  [a |-> [vecs |-> [r \in (DOMAIN a.vecs) \cup {a.heapEnd} |->
                      IF r = a.heapEnd THEN elems ELSE a.vecs[r]],
          refs |-> [r \in (DOMAIN a.refs) \cup {a.heapEnd} |->
                      IF r = a.heapEnd THEN 1 ELSE a.refs[r]],
          heapEnd |-> a.heapEnd + 1],
   root |-> a.heapEnd, depth |-> 0, size |-> Len(elems)]

\* vecPush(root, depth, size, raw): the new (root, depth, size) in scratch
vecPush(a, root, depth, size, raw) == SlAllocRoot(a, Append(SlElems(a, root, size), raw))

\* vecSet(root, depth, index, raw): the new root
vecSet(a, root, depth, index, raw) ==
  SlAllocRoot(a, [SlElems(a, root, index + 1) EXCEPT ![index + 1] = raw]
                   \o SubSeq(a.vecs[root], index + 2, Len(a.vecs[root])))

\* vecDecref(root, depth): one reference less on the vector under root
vecDecref(a, root, depth) == [a EXCEPT !.refs[root] = @ - 1]

\* vecPop(root, depth, size): the new (root, depth, size) in scratch
vecPop(a, root, depth, size) ==
  IF size = 1 THEN [a |-> a, root |-> 0, depth |-> 0, size |-> 0]
  ELSE SlAllocRoot(a, SlElems(a, root, size - 1))

\* new SharedList(type, root, depth, size).  The field decrefs is history:
\* the number of vecDecref calls made for the object.  An object with a
\* root is registered with the FinalizationRegistry (main thread).
SharedList(type, root, depth, size) ==
  [type |-> type, root |-> root, depth |-> depth, size |-> size,
   gen |-> slGeneration, disposed |-> FALSE, decrefs |-> 0]

SlIsStale(l) == l.gen # slGeneration \/ l.disposed

\* get size()
SlSize(l, gen) == IF l.gen = gen /\ ~l.disposed THEN l.size ELSE 0

\* get(index): <<value>>, or <<>> for undefined
SlGet(a, l, gen, index) ==
  IF l.gen # gen \/ l.disposed \/ index < 0 \/ index >= l.size THEN <<>>
  ELSE <<SlDecode(l.type, SlElems(a, l.root, l.size)[index + 1])>>

\* toArray()
SlToArray(a, l, gen) ==
  IF l.gen # gen \/ l.disposed THEN <<>>
  ELSE [i \in 1..l.size |-> SlDecode(l.type, SlElems(a, l.root, l.size)[i])]

SlCommit(a) ==
  /\ slVecs' = a.vecs
  /\ slRefs' = a.refs
  /\ slHeapEnd' = a.heapEnd

\* the caller keeps the list l that operation op on list h returned
SlReturn(op, h, l) ==
  LET id == CHOOSE i \in SlIds \ DOMAIN slLists : \A j \in SlIds \ DOMAIN slLists : i <= j
  IN /\ slLists' = [x \in (DOMAIN slLists) \cup {id} |-> IF x = id THEN l ELSE slLists[x]]
     /\ last' = [op |-> op, h |-> h, r |-> id]

\* operation op on list h returned h itself
SlReturnThis(op, h) ==
  /\ slLists' = slLists
  /\ last' = [op |-> op, h |-> h, r |-> h]

SlRoom == slHeapEnd <= MaxSlRoots

\* new SharedList(type)
SlNew(type) ==
  /\ DOMAIN slLists # SlIds
  /\ SlReturn("sl.new", 0, SharedList(type, 0, 0, 0))
  /\ UNCHANGED <<slGeneration, slVecs, slRefs, slHeapEnd, notSl>>

\* push(value): on a stale or disposed list, new SharedList(type).push(value)
SlPush(h, value) ==
  /\ h \in DOMAIN slLists /\ DOMAIN slLists # SlIds
  /\ SlRoom /\ slLists[h].size < MaxSlSize
  /\ LET l == slLists[h]
         r == IF SlIsStale(l)
              THEN vecPush(SlSt, 0, 0, 0, SlEncode(l.type, value))
              ELSE vecPush(SlSt, l.root, l.depth, l.size, SlEncode(l.type, value))
     IN /\ SlCommit(r.a)
        /\ SlReturn("sl.push", h, SharedList(l.type, r.root, r.depth, r.size))
  /\ UNCHANGED <<slGeneration, notSl>>

\* set(index, value): returns this on a stale or disposed list and for an
\* index out of range
SlSet(h, index, value) ==
  /\ h \in DOMAIN slLists /\ DOMAIN slLists # SlIds
  /\ SlRoom
  /\ LET l == slLists[h]
     IN IF SlIsStale(l) \/ index < 0 \/ index >= l.size
        THEN SlReturnThis("sl.set", h) /\ UNCHANGED <<slVecs, slRefs, slHeapEnd>>
        ELSE LET r == vecSet(SlSt, l.root, l.depth, index, SlEncode(l.type, value))
             IN /\ SlCommit(r.a)
                /\ SlReturn("sl.set", h, SharedList(l.type, r.root, l.depth, l.size))
  /\ UNCHANGED <<slGeneration, notSl>>

\* pop(): returns this on a stale or disposed list and on an empty one
SlPop(h) ==
  /\ h \in DOMAIN slLists /\ DOMAIN slLists # SlIds
  /\ SlRoom
  /\ LET l == slLists[h]
     IN IF SlIsStale(l) \/ l.size = 0
        THEN SlReturnThis("sl.pop", h) /\ UNCHANGED <<slVecs, slRefs, slHeapEnd>>
        ELSE LET r == vecPop(SlSt, l.root, l.depth, l.size)
             IN /\ SlCommit(r.a)
                /\ SlReturn("sl.pop", h, SharedList(l.type, r.root, r.depth, r.size))
  /\ UNCHANGED <<slGeneration, notSl>>

\* resetSharedList(): generation++; wasm.reset()
ResetSharedList ==
  /\ slGeneration < MaxSlGen
  /\ slGeneration' = slGeneration + 1
  /\ slHeapEnd' = 1
  /\ last' = [op |-> "sl.reset", h |-> 0, r |-> 0]
  /\ UNCHANGED <<slVecs, slRefs, slLists, notSl>>

\* the caller lets go of a list object
SlDrop(h) ==
  /\ h \in DOMAIN slLists
  /\ slLists' = [x \in (DOMAIN slLists) \ {h} |-> slLists[x]]
  /\ last' = [op |-> "sl.drop", h |-> 0, r |-> 0]
  /\ UNCHANGED <<slGeneration, slVecs, slRefs, slHeapEnd, notSl>>

NextSl ==
  \/ \E t \in SlTypes : SlNew(t)
  \/ \E h \in SlIds, t \in SlTypes : \E v \in SlValues(t) :
       h \in DOMAIN slLists /\ slLists[h].type = t /\ SlPush(h, v)
  \/ \E h \in SlIds, t \in SlTypes, i \in 0..(MaxSlSize - 1) : \E v \in SlValues(t) :
       h \in DOMAIN slLists /\ slLists[h].type = t /\ SlSet(h, i, v)
  \/ \E h \in SlIds : SlPop(h)
  \/ ResetSharedList
  \/ \E h \in SlIds : SlDrop(h)

SpecSl == Init /\ [][NextSl]_vars

\* dispose()
SlDispose(h) ==
  /\ h \in DOMAIN slLists
  /\ LET l == slLists[h]
     IN IF ~l.disposed /\ l.gen = slGeneration /\ l.root # 0
        THEN /\ SlCommit(vecDecref(SlSt, l.root, l.depth))
             /\ slLists' = [slLists EXCEPT ![h].disposed = TRUE, ![h].decrefs = @ + 1]
        ELSE UNCHANGED <<slVecs, slRefs, slHeapEnd, slLists>>
  /\ last' = [op |-> "sl.dispose", h |-> h, r |-> h, decrefs |-> slLists'[h].decrefs]
  /\ UNCHANGED <<slGeneration, notSl>>

\* the caller has let go of list object h and the garbage collector runs
\* the FinalizationRegistry callback with the value held for it
SlFinalize(h) ==
  /\ h \in DOMAIN slLists
  /\ slLists[h].root # 0
  /\ LET l == slLists[h]
         hit == l.gen = slGeneration /\ l.root # 0
     IN /\ IF hit THEN SlCommit(vecDecref(SlSt, l.root, l.depth))
           ELSE UNCHANGED <<slVecs, slRefs, slHeapEnd>>
        /\ last' = [op |-> "sl.finalize", h |-> 0, r |-> 0,
                    decrefs |-> l.decrefs + (IF hit THEN 1 ELSE 0)]
  /\ slLists' = [x \in (DOMAIN slLists) \ {h} |-> slLists[x]]
  /\ UNCHANGED <<slGeneration, notSl>>

NextSlGc ==
  \/ \E t \in SlTypes : SlNew(t)
  \/ \E h \in SlIds, t \in SlTypes : \E v \in SlValues(t) :
       h \in DOMAIN slLists /\ slLists[h].type = t /\ SlPush(h, v)
  \/ \E h \in SlIds : SlPop(h)
  \/ \E h \in SlIds : SlDispose(h)
  \/ \E h \in SlIds : SlFinalize(h)
  \/ \E h \in DOMAIN slLists : slLists[h].root = 0 /\ SlDrop(h)
  \/ ResetSharedList

SpecSlGc == Init /\ [][NextSlGc]_vars

\* C33: over the lifetime of a SharedList object vecDecref is applied for
\* it at most once, whatever the order of dispose() calls and the
\* finalization callback.
C33_SlDecrefAtMostOnce ==
  /\ \A h \in DOMAIN slLists : slLists[h].decrefs <= 1
  /\ last.op = "sl.finalize" => last.decrefs <= 1

\* C16: push, set or pop on a SharedList made before the last
\* resetSharedList() returns a new list object of the same type whose size
\* is 0 and whose generation is the current one.
C16_StaleWriteFreshEmpty ==
  [][(/\ last'.op \in {"sl.push", "sl.set", "sl.pop"}
      /\ slLists[last'.h].gen # slGeneration) =>
       /\ last'.r # last'.h
       /\ slLists'[last'.r].type = slLists[last'.h].type
       /\ slLists'[last'.r].gen = slGeneration'
       /\ slLists'[last'.r].size = 0
       /\ SlSize(slLists'[last'.r], slGeneration') = 0]_vars

\* ------------------------------------------------------------------------
\* Persistent leftist heap (unnamed/part_001). The host holds roots; a root
\* of 0 is the empty heap. Priorities are finite numbers.
\* ------------------------------------------------------------------------
LhPriorities == 0..MaxLhPriority
LhVals == 1..MaxLhVal

notLh == <<mapVars, workerVars, dllVars, sllVars, pqVars, omVars, rbVars, attVars, slVars>>

\* the allocator state and the memory, as the wasm instance holds them
LhArena == [mem |-> lhMem, heapEnd |-> lhHeapEnd, freeList |-> lhFreeList]

LhStore(mem, ptr, cell) ==
  [x \in DOMAIN mem \cup {ptr} |-> IF x = ptr THEN cell ELSE mem[x]]

\* function alloc(): pop the free list, else bump heapEnd by NODE_SIZE
LhAlloc(a) ==
  IF a.freeList # 0
  THEN [ptr |-> a.freeList,
        a |-> [a EXCEPT !.freeList = a.mem[a.freeList].left]]
  ELSE [ptr |-> a.heapEnd,
        a |-> [a EXCEPT !.heapEnd = a.heapEnd + LhNodeSize]]

LhGetPriority(a, n) == a.mem[n].priority
LhGetValue(a, n) == a.mem[n].value
LhGetRank(a, n) == IF n # 0 THEN a.mem[n].rank ELSE 0
LhGetLeft(a, n) == IF n # 0 THEN a.mem[n].left ELSE 0
LhGetRight(a, n) == IF n # 0 THEN a.mem[n].right ELSE 0

LhCreateNode(a, priority, value, rank, left, right) ==
  LET al == LhAlloc(a)
  IN [ptr |-> al.ptr,
      a |-> [al.a EXCEPT !.mem = LhStore(al.a.mem, al.ptr,
               [priority |-> priority, value |-> value, rank |-> rank,
                left |-> left, right |-> right])]]

\* merge with the right subtree left as it is (no recursion)
LhMergeNoRecurse(a, h1, h2, isMaxHeap) ==
  IF h1 = 0 THEN [ptr |-> h2, a |-> a]
  ELSE IF h2 = 0 THEN [ptr |-> h1, a |-> a]
  ELSE LhCreateNode(a, LhGetPriority(a, h1), LhGetValue(a, h1),
                    LhGetRank(a, h2) + 1, LhGetLeft(a, h1), h2)

\* merge that writes the merged node over h1 instead of allocating
LhMergeInPlace(a, h1, h2, isMaxHeap) ==
  IF h1 = 0 THEN [ptr |-> h2, a |-> a]
  ELSE IF h2 = 0 THEN [ptr |-> h1, a |-> a]
  ELSE LET swap == IF isMaxHeap
                   THEN LhGetPriority(a, h2) > LhGetPriority(a, h1)
                   ELSE LhGetPriority(a, h2) < LhGetPriority(a, h1)
           x == IF swap THEN h2 ELSE h1
           y == IF swap THEN h1 ELSE h2
       IN [ptr |-> x,
           a |-> [a EXCEPT !.mem = LhStore(a.mem, x,
                    [a.mem[x] EXCEPT !.right = y,
                                     !.left = a.mem[x].right])]]

\* merge that recurses but never swaps the children
LhMergeNoSwap(a, h1, h2, isMaxHeap) ==
  IF h1 = 0 THEN [ptr |-> h2, a |-> a]
  ELSE IF h2 = 0 THEN [ptr |-> h1, a |-> a]
  ELSE LET swap == IF isMaxHeap
                   THEN LhGetPriority(a, h2) > LhGetPriority(a, h1)
                   ELSE LhGetPriority(a, h2) < LhGetPriority(a, h1)
           x == IF swap THEN h2 ELSE h1
           y == IF swap THEN h1 ELSE h2
       IN Bind(LhMergeNoRecurse(a, LhGetRight(a, x), y, isMaxHeap), LAMBDA nr :
            LhCreateNode(nr.a, LhGetPriority(nr.a, x), LhGetValue(nr.a, x),
                         LhGetRank(nr.a, nr.ptr) + 1, LhGetLeft(nr.a, x), nr.ptr))

RECURSIVE LhMergeOp(_, _, _, _)
\* export function merge(h1, h2, isMaxHeap)
LhMergeOp(a, h1, h2, isMaxHeap) ==
  IF h1 = 0 THEN [ptr |-> h2, a |-> a]
  ELSE IF h2 = 0 THEN [ptr |-> h1, a |-> a]
  ELSE LET p1 == LhGetPriority(a, h1)
           p2 == LhGetPriority(a, h2)
           swap == IF isMaxHeap THEN p2 > p1 ELSE p2 < p1
           x == IF swap THEN h2 ELSE h1
           y == IF swap THEN h1 ELSE h2
       IN Bind(LhMergeOp(a, LhGetRight(a, x), y, isMaxHeap), LAMBDA nr :
            LET left == LhGetLeft(nr.a, x)
                rankLeft == LhGetRank(nr.a, left)
                rankRight == LhGetRank(nr.a, nr.ptr)
            IN IF rankLeft >= rankRight
               THEN LhCreateNode(nr.a, LhGetPriority(nr.a, x), LhGetValue(nr.a, x),
                                 rankRight + 1, left, nr.ptr)
               ELSE LhCreateNode(nr.a, LhGetPriority(nr.a, x), LhGetValue(nr.a, x),
                                 rankLeft + 1, nr.ptr, left))

\* export function insert(heap, priority, valuePacked, isMaxHeap)
LhInsertOp(a, heap, priority, valuePacked, isMaxHeap) ==
  LET singleton == LhCreateNode(a, priority, valuePacked, 1, 0, 0)
  IN LhMergeOp(singleton.a, heap, singleton.ptr, isMaxHeap)

\* export function extractTop(heap, isMaxHeap)
LhExtractTopOp(a, heap, isMaxHeap) ==
  IF heap = 0 THEN [ptr |-> 0, a |-> a]
  ELSE LhMergeOp(a, LhGetLeft(a, heap), LhGetRight(a, heap), isMaxHeap)

\* export function peekPriority(heap), peekValue(heap)
LhPeekPriority(a, heap) == IF heap # 0 THEN LhGetPriority(a, heap) ELSE 0
LhPeekValue(a, heap) == IF heap # 0 THEN LhGetValue(a, heap) ELSE 0

\* the arena has room left within the bound
LhRoom(a) == a.heapEnd <= LhHeapStart + MaxLhNodes * LhNodeSize

\* what the host knows of a heap: its root and direction; live is the
\* history of the heap, how many times each element is in it
LhElems == [priority : LhPriorities, value : LhVals]
LhNoElems == [e \in LhElems |-> 0]
LhEmpty(isMaxHeap) == [root |-> 0, isMaxHeap |-> isMaxHeap, live |-> LhNoElems]

\* the roots the host still holds, oldest first
LhHeldRoots == {lhRoots[i] : i \in 1..Len(lhRoots)}

\* the heaps a call can be made on: the roots held and the empty heap
LhHeld == LhHeldRoots \cup {LhEmpty(TRUE), LhEmpty(FALSE)}

\* the host keeps the roots returned last and lets go of the oldest
LhKeep(roots, r) ==
  LET new == IF \E i \in 1..Len(roots) : roots[i] = r THEN roots
             ELSE Append(roots, r)
  IN IF Len(new) > MaxLhRoots THEN Tail(new) ELSE new

\* the call returned: the wasm state is res.a, the host holds the new root
LhReturn(op, q, res, live) ==
  /\ LhRoom(res.a)
  /\ lhMem' = res.a.mem
  /\ lhHeapEnd' = res.a.heapEnd
  /\ lhFreeList' = res.a.freeList
  /\ lhRoots' = LhKeep(lhRoots, [root |-> res.ptr, isMaxHeap |-> q.isMaxHeap,
                                 live |-> live])
  /\ last' = [op |-> op, h |-> q.root, r |-> res.ptr]
  /\ UNCHANGED notLh

LhInsert(q, priority, value) ==
  /\ q \in LhHeld
  /\ Bind(LhInsertOp(LhArena, q.root, priority, value, q.isMaxHeap), LAMBDA res :
       LhReturn("lh.insert", q, res,
                [q.live EXCEPT ![[priority |-> priority, value |-> value]] = @ + 1]))

LhExtractTop(q) ==
  /\ q \in LhHeld
  /\ Bind(LhExtractTopOp(LhArena, q.root, q.isMaxHeap), LAMBDA res :
       LhReturn("lh.extractTop", q, res,
                IF q.root = 0 THEN q.live
                ELSE [q.live EXCEPT ![[priority |-> LhGetPriority(LhArena, q.root),
                                       value |-> LhGetValue(LhArena, q.root)]] =
                                      IF @ > 0 THEN @ - 1 ELSE 0]))

LhMerge(q1, q2) ==
  /\ q1 \in LhHeld
  /\ q2 \in LhHeld
  /\ q1 # q2
  /\ q1.isMaxHeap = q2.isMaxHeap
  /\ Bind(LhMergeOp(LhArena, q1.root, q2.root, q1.isMaxHeap), LAMBDA res :
       LhReturn("lh.merge", q1, res, [e \in LhElems |-> q1.live[e] + q2.live[e]]))

\* reset(): the whole arena is reclaimed, nothing is allocated any more and
\* the host gives up its roots. The bytes stay in memory; no later call reads
\* an address before it allocated and wrote it (such a read would be an
\* evaluation error here).
LhReset ==
  /\ lhHeapEnd # LhHeapStart
  /\ lhHeapEnd' = LhHeapStart
  /\ lhFreeList' = 0
  /\ lhMem' = [x \in {} |-> 0]
  /\ lhRoots' = <<>>
  /\ last' = [op |-> "lh.reset", h |-> 0, r |-> 0]
  /\ UNCHANGED notLh

NextLh ==
  \/ \E q \in LhHeld, p \in LhPriorities, v \in LhVals : LhInsert(q, p, v)
  \/ \E q \in LhHeld : LhExtractTop(q)
  \/ \E q1 \in LhHeld, q2 \in LhHeld : LhMerge(q1, q2)
  \/ LhReset

SpecLh == Init /\ [][NextLh]_vars

RECURSIVE LhSum(_, _)
LhSum(live, S) ==
  IF S = {} THEN 0
  ELSE LET e == CHOOSE x \in S : TRUE IN live[e] + LhSum(live, S \ {e})

\* the number of elements of a heap, counted from its history
LhSize(live) == LhSum(live, LhElems)

RECURSIVE LhDrain(_, _, _, _)
\* extractTop called n times from heap: the tops seen before each call and
\* the root after the last one
LhDrain(a, heap, isMaxHeap, n) ==
  IF n = 0 THEN [tops |-> <<>>, root |-> heap]
  ELSE Bind(LhExtractTopOp(a, heap, isMaxHeap), LAMBDA res :
         Bind(LhDrain(res.a, res.ptr, isMaxHeap, n - 1), LAMBDA d :
           [tops |-> <<[priority |-> LhPeekPriority(a, heap),
                        value |-> LhPeekValue(a, heap)]>> \o d.tops,
            root |-> d.root]))

LhTimes(tops, e) == Cardinality({i \in 1..Len(tops) : tops[i] = e})

LhMonotone(tops, isMaxHeap) ==
  \A i \in 1..(Len(tops) - 1) :
    IF isMaxHeap THEN tops[i].priority >= tops[i + 1].priority
    ELSE tops[i].priority <= tops[i + 1].priority

LhDrainsWell(q) ==
  Bind(LhDrain(LhArena, q.root, q.isMaxHeap, LhSize(q.live)), LAMBDA d :
    /\ d.root = 0
    /\ \A e \in LhElems : LhTimes(d.tops, e) = q.live[e]
    /\ \A i \in 1..Len(d.tops) : d.tops[i] \in LhElems
    /\ LhMonotone(d.tops, q.isMaxHeap))

\* C22: from every root the host holds, extractTop called as many times as
\* the heap has elements takes out every element exactly as often as it was
\* put in, ends with root 0, and the tops seen before the calls go up for a
\* min-heap and down for a max-heap (never the other way).
C22_LhDrainSortsAll ==
  \A i \in 1..Len(lhRoots) : LhDrainsWell(lhRoots[i])

\* extractTop was called on a heap of three elements of two priorities and
\* returned a heap that is not empty
C22_Witness ==
  /\ last.op = "lh.extractTop"
  /\ last.r # 0
  /\ \E i \in 1..Len(lhRoots) :
       /\ lhRoots[i].root = last.h
       /\ LhSize(lhRoots[i].live) = 3
       /\ \E e1 \in LhElems, e2 \in LhElems :
            /\ e1.priority # e2.priority
            /\ lhRoots[i].live[e1] > 0
            /\ lhRoots[i].live[e2] > 0

RECURSIVE LhReach(_, _)
\* the nodes reachable from n
LhReach(mem, n) ==
  IF n = 0 THEN {}
  ELSE {n} \cup LhReach(mem, mem[n].left) \cup LhReach(mem, mem[n].right)

LhNotWorse(p, c, isMaxHeap) == IF isMaxHeap THEN p >= c ELSE p <= c

LhNodeOk(a, n, isMaxHeap) ==
  /\ LhGetRank(a, LhGetLeft(a, n)) >= LhGetRank(a, LhGetRight(a, n))
  /\ LhGetRank(a, n) = LhGetRank(a, LhGetRight(a, n)) + 1
  /\ \A c \in {LhGetLeft(a, n), LhGetRight(a, n)} \ {0} :
       LhNotWorse(LhGetPriority(a, n), LhGetPriority(a, c), isMaxHeap)

\* C29: at every node reachable from a root that insert, extractTop or
\* merge returned, the rank of the left child is at least the rank of the
\* right child (0 for an absent child), the stored rank is the rank of the
\* right child plus one, and the priority is not worse than a child's.
C29_LhLeftistInvariants ==
  \A i \in 1..Len(lhRoots) :
    \A n \in LhReach(lhMem, lhRoots[i].root) :
      LhNodeOk(LhArena, n, lhRoots[i].isMaxHeap)

\* merge returned a root of rank 2, a node with two children
C29_Witness ==
  /\ last.op = "lh.merge"
  /\ last.r # 0
  /\ \E i \in 1..Len(lhRoots) : lhRoots[i].root = last.r
  /\ LhGetRank(LhArena, last.r) = 2
  /\ LhGetRight(LhArena, last.r) # 0

RECURSIVE LhTree(_, _)
\* the heap a root denotes
LhTree(mem, n) ==
  IF n = 0 THEN <<>>
  ELSE [priority |-> mem[n].priority, value |-> mem[n].value,
        rank |-> mem[n].rank,
        left |-> LhTree(mem, mem[n].left), right |-> LhTree(mem, mem[n].right)]

\* C30: a call of insert, extractTop or merge changes no node that was
\* allocated before it, so every root the host held before the call denotes
\* the same heap after it.
C30_LhOldRootsIntact ==
  [][last'.op \in {"lh.insert", "lh.extractTop", "lh.merge"} =>
       /\ \A x \in DOMAIN lhMem : x \in DOMAIN lhMem' /\ lhMem'[x] = lhMem[x]
       /\ \A i \in 1..Len(lhRoots) :
            LhTree(lhMem', lhRoots[i].root) = LhTree(lhMem, lhRoots[i].root)]_vars

\* insert on a heap of two elements returned a new root and the host still
\* holds the old one
C30_Witness ==
  /\ last.op = "lh.insert"
  /\ last.h # 0
  /\ last.r # last.h
  /\ \E i \in 1..Len(lhRoots) :
       lhRoots[i].root = last.h /\ LhSize(lhRoots[i].live) = 2
  /\ \E i \in 1..Len(lhRoots) :
       lhRoots[i].root = last.r /\ LhSize(lhRoots[i].live) = 3

\* ------------------------------------------------------------------------
\* Removal from an empty structure (SpecEmpty): the program works with one
\* of the four families, the others are as they were loaded.
\* ------------------------------------------------------------------------
DllIdle == dllLists = <<>> /\ dllHeapEnd = 1 /\ dllFreeList = 0
SllIdle == sllLists = <<>> /\ sllHeapEnd = 1 /\ sllFreeList = 0
PqIdle == pqQueues = <<>> /\ pqHeapEnd = PqHeapStart
SlIdle == slLists = <<>> /\ slHeapEnd = 1 /\ slGeneration = 0

NextEmpty ==
  \/ SllIdle /\ PqIdle /\ SlIdle /\ NextDll
  \/ DllIdle /\ PqIdle /\ SlIdle /\ NextSll
  \/ DllIdle /\ SllIdle /\ SlIdle /\ NextPq
  \/ DllIdle /\ SllIdle /\ PqIdle /\ NextSl

SpecEmpty == Init /\ [][NextEmpty]_vars

\* the size that the handle of the coming call reports before the call
EmptyBefore(op, h) ==
  CASE op \in {"dll.removeFirst", "dll.removeLast"} -> dllLists[h].size = 0
    [] op = "sll.removeFirst" -> sllLists[h].size = 0
    [] op = "pq.dequeue" -> pqQueues[h].size = 0
    [] op = "sl.pop" -> SlSize(slLists[h], slGeneration) = 0
    [] OTHER -> FALSE

\* C25: pop, dequeue, removeFirst and removeLast on a handle of size 0
\* return the handle they were called on, create no handle and leave the
\* arena of the family as it was.
C25_EmptyRemovalIsNoOp ==
  [][EmptyBefore(last'.op, last'.h) =>
       /\ last'.r = last'.h
       /\ UNCHANGED <<dllVars, sllVars, pqVars, slVars>>]_vars

\* removeLast was called on a doubly linked list of size 0 while the arena
\* holds a node
C25_Witness ==
  /\ last.op = "dll.removeLast"
  /\ last.r = last.h
  /\ dllLists[last.h].size = 0
  /\ dllHeapEnd > 1

====
